---- MODULE Spec2Model ----
(***************************************************************************)
(* Verification model of the print-nanny command-and-control plane.        *)
(*                                                                         *)
(* The engines modelled:                                                   *)
(*   - the recording lifecycle manager (db/src/video_recording.rs and the  *)
(*     camera.recording.* handlers of nats/src/message_v2.rs), under Spec, *)
(*     with updates from the cloud under SpecCloud and with loads running  *)
(*     beside start and stop under SpecLoad;                               *)
(*   - the version-controlled settings engine (services/src/settings/      *)
(*     vcs.rs and the settings.file.* handlers), under SpecVcs, with       *)
(*     commits without a message under SpecSave, reverts without a target  *)
(*     under SpecRevert and applies of two apps at once under SpecVcsConc; *)
(*   - the protocol dispatch layer (NatsRequest, NatsReply,                *)
(*     deserialize_payload and handle of nats/src/message_v2.rs), under    *)
(*     SpecNats;                                                           *)
(*   - the pipeline orchestrator (make_pipeline and start_pipelines of     *)
(*     gst-pipelines/src/factory.rs), under SpecGst;                       *)
(*   - the init-system adapter (the systemd1.Manager handlers of           *)
(*     nats/src/message_v2.rs), under SpecSystemd;                         *)
(*   - the model cache (load_model of services/src/printnanny_api.rs),     *)
(*     under SpecCache.                                                    *)
(*                                                                         *)
(* A handler is one action: it runs to completion or to its first failing  *)
(* `?`.  Which step fails, and what the collaborators (pipeline endpoint,  *)
(* init-system bus, filesystem, git) answer, are inputs of the action.     *)
(***************************************************************************)
EXTENDS Integers, Sequences, FiniteSets, TLC

VARIABLES
    video_recordings,   \* the video_recordings table: id -> row
    clock,              \* the last value of Utc::now() written to a row
    unit_jobs,          \* unit names handed to ManagerProxy::start_unit so far
    rec,                \* the last recording handler call: inputs, reply, pre-state
    load,               \* the recording load in progress: what it has read so far
    commits,            \* the settings repository's commit objects: oid -> commit
    head,               \* the commit HEAD points to (NoCommit on an unborn branch)
    index,              \* the repository index: app -> staged content
    workdir,            \* the settings files on disk: app -> content
    applied,            \* oid -> the apply request whose commit it is
    vcs,                \* the last settings handler call: inputs, reply, pre-state
    pc,                 \* each app's apply in flight: its next step and what it holds
    nats,               \* the last dispatch call: inputs and result
    server,             \* the names of the pipelines the pipeline server holds
    playing,            \* the names of the pipelines that were set to play
    gst,                \* the last pipeline factory call: inputs, calls made, result
    unit_files,         \* the unit file state of each unit the init system knows
    sd,                 \* the last init-system adapter call: inputs, bus calls, result
    cache,              \* the model cache: path -> the file kept there
    lm                  \* the last load_model call on each path: inputs, outcome

vars == <<video_recordings, clock, unit_jobs, rec, load, commits, head, index, workdir,
          applied, vcs, pc, nats, server, playing, gst, unit_files, sd, cache,
          lm>>

recVars == <<video_recordings, clock, unit_jobs, rec, load>>
vcsVars == <<commits, head, index, workdir, applied, vcs, pc>>
natsVars == <<nats>>

gstVars == <<server, playing, gst>>

sdVars == <<unit_files, sd>>
cacheVars == <<cache, lm>>

(***************************************************************************)
(* Bounds                                                                  *)
(***************************************************************************)
MaxRecordings == 2      \* rows the table may hold
MaxClock == 4           \* readings of Utc::now()
MaxCommits == 3         \* commit objects the repository may hold

(***************************************************************************)
(* Recording rows                                                          *)
(***************************************************************************)
\* Option::None of a nullable timestamp column; SQLite orders NULL below
\* every value, and the clock starts above it.
NULL == 0

\* Option::None of an Option<VideoRecording>, of a reply's recording
\* reference and of a unit name that was never requested.
None == "None"

\* uuid::Uuid::new_v4().to_string(): the ids a row may get.
RecordingIds == {"id" \o ToString(i) : i \in 1..MaxRecordings}

\* The row NewVideoRecording inserts: capture_done and cloud_sync_done false,
\* the nullable columns left NULL.
NewVideoRecording ==
    [capture_done |-> FALSE, cloud_sync_done |-> FALSE,
     recording_start |-> NULL, recording_end |-> NULL]

\* The recording_status column written by the handlers ("inprogress",
\* "done") is the capture_done column of the table: done <=> capture_done.
CaptureDoneOf(recording_status) == recording_status = "done"

\* VideoRecording::start_new: INSERT of a fresh row.
start_new(rows, id) == (id :> NewVideoRecording) @@ rows

\* VideoRecording::update: UPDATE ... WHERE id = row_id, setting the
\* columns of the changeset that are Some.
update(rows, row_id, changes) ==
    [i \in DOMAIN rows |->
        IF i = row_id
        THEN [c \in DOMAIN rows[i] |->
                 IF c \in DOMAIN changes THEN changes[c] ELSE rows[i][c]]
        ELSE rows[i]]

\* Rows with capture_done = false.
OpenRows(rows) == {i \in DOMAIN rows : ~rows[i].capture_done}

\* A mutant of get_current: ascending instead of descending order.
get_current_ascending(rows) ==
    IF OpenRows(rows) = {} THEN {None}
    ELSE {i \in OpenRows(rows) :
            \A j \in OpenRows(rows) : rows[j].recording_start >= rows[i].recording_start}

\* A mutant of get_current: the capture_done filter is dropped.
get_current_unfiltered(rows) ==
    IF DOMAIN rows = {} THEN {None}
    ELSE {i \in DOMAIN rows :
            \A j \in DOMAIN rows : rows[j].recording_start <= rows[i].recording_start}

\* VideoRecording::get_current: filter(capture_done = false)
\* .order(recording_start.desc()).first().optional().  Rows that tie on
\* recording_start come in an order SQL leaves open, so the result is one
\* of a set of candidates.
get_current(rows) ==
    IF OpenRows(rows) = {} THEN {None}
    ELSE {i \in OpenRows(rows) :
            \A j \in OpenRows(rows) : rows[j].recording_start <= rows[i].recording_start}

\* PRINTNANNY_RECORDING_SERVICE_TEMPLATE of printnanny_dbus::systemd1::models.
PRINTNANNY_RECORDING_SERVICE_TEMPLATE == "recording-sync@"

\* A mutant of unit_name: the instance id is left out.
unit_name_without_id(id) == PRINTNANNY_RECORDING_SERVICE_TEMPLATE \o ".service"

\* format!("{PRINTNANNY_RECORDING_SERVICE_TEMPLATE}{}.service", recording.id)
unit_name(id) == PRINTNANNY_RECORDING_SERVICE_TEMPLATE \o id \o ".service"

(***************************************************************************)
(* handle_camera_recording_start                                           *)
(***************************************************************************)
\* The fallible steps of the handler, in the order the code runs them.
StartSteps == <<"start_new", "start_video_recording_pipeline", "update", "get_by_id">>

StepIndex(steps, s) == CHOOSE k \in 1..Len(steps) : steps[k] = s

\* Step s ran to completion in a call whose first failing step is fail.
Passed(steps, fail, s) ==
    IF fail = "none" THEN TRUE ELSE StepIndex(steps, s) < StepIndex(steps, fail)

FailPoints(steps) == {"none"} \cup {steps[k] : k \in 1..Len(steps)}

PrevOf(r) == [op |-> r.op, result |-> r.result, id |-> r.id]

handle_camera_recording_start(id, fail) ==
    LET inserted == IF Passed(StartSteps, fail, "start_new")
                    THEN start_new(video_recordings, id) ELSE video_recordings
        now      == clock + 1
        started  == Passed(StartSteps, fail, "update")
        rows     == IF started
                    THEN update(inserted, id,
                                [capture_done |-> CaptureDoneOf("inprogress"),
                                 recording_start |-> now])
                    ELSE inserted
        ok       == fail = "none"
    IN  /\ video_recordings' = rows
        /\ clock' = IF started THEN now ELSE clock
        /\ unit_jobs' = unit_jobs
        /\ rec' = [op |-> "start", fail |-> fail, cloud_sync |-> FALSE,
                   job_ok |-> FALSE, id |-> id, unit |-> None,
                   result |-> IF ok THEN "Ok" ELSE "Err",
                   reply |-> IF ok THEN id ELSE None,
                   before |-> video_recordings, prev |-> PrevOf(rec)]

CameraRecordingStart ==
    /\ Cardinality(DOMAIN video_recordings) < MaxRecordings
    /\ \E id \in RecordingIds \ DOMAIN video_recordings :
       \E fail \in FailPoints(StartSteps) :
          handle_camera_recording_start(id, fail)
    /\ clock' <= MaxClock
    /\ UNCHANGED <<load, vcsVars, natsVars, gstVars, sdVars, cacheVars>>

(***************************************************************************)
(* handle_camera_recording_stop                                            *)
(***************************************************************************)
StopSteps == <<"get_current", "stop_video_recording_pipeline", "settings",
               "dbus_connection", "dbus_proxy", "update", "get_by_id">>

\* The steps a call reaches at all: the bus is contacted only with cloud
\* sync enabled and a current recording, the row is updated only when
\* there is a current recording.
StopFailPoints(recording, cloud_sync) ==
    {"none", "get_current", "stop_video_recording_pipeline", "settings"}
    \cup (IF cloud_sync /\ recording # None
          THEN {"dbus_connection", "dbus_proxy"} ELSE {})
    \cup (IF recording # None THEN {"update", "get_by_id"} ELSE {})

handle_camera_recording_stop(recording, cloud_sync, fail, job_ok) ==
    LET requested == /\ cloud_sync
                     /\ recording # None
                     /\ Passed(StopSteps, fail, "dbus_proxy")
        now       == clock + 1
        updated   == recording # None /\ Passed(StopSteps, fail, "update")
        ok        == fail = "none"
    IN  /\ video_recordings' =
              IF updated
              THEN update(video_recordings, recording,
                          [capture_done |-> CaptureDoneOf("done"),
                           recording_end |-> now])
              ELSE video_recordings
        /\ clock' = IF updated THEN now ELSE clock
        /\ unit_jobs' = IF requested THEN unit_jobs \cup {unit_name(recording)}
                        ELSE unit_jobs
        /\ rec' = [op |-> "stop", fail |-> fail, cloud_sync |-> cloud_sync,
                   job_ok |-> job_ok, id |-> recording,
                   unit |-> IF requested THEN unit_name(recording) ELSE None,
                   result |-> IF ok THEN "Ok" ELSE "Err",
                   reply |-> IF ok THEN recording ELSE None,
                   before |-> video_recordings, prev |-> PrevOf(rec)]

CameraRecordingStop ==
    /\ \E recording \in get_current(video_recordings) :
       \E cloud_sync \in BOOLEAN :
       \E fail \in StopFailPoints(recording, cloud_sync) :
       \E job_ok \in BOOLEAN :
          /\ job_ok => (cloud_sync /\ recording # None
                          /\ Passed(StopSteps, fail, "dbus_proxy"))
          /\ handle_camera_recording_stop(recording, cloud_sync, fail, job_ok)
    /\ clock' <= MaxClock
    /\ UNCHANGED <<load, vcsVars, natsVars, gstVars, sdVars, cacheVars>>

(***************************************************************************)
(* handle_camera_recording_load                                            *)
(***************************************************************************)
\* No load is in progress and none has replied.
NoLoad ==
    [step |-> "idle", recordings |-> [i \in {} |-> NewVideoRecording],
     current |-> None, result |-> None]

\* VideoRecording::get_all()?: the first statement of the handler reads
\* every row; when it fails the handler returns the error.
CameraRecordingLoadGetAll ==
    /\ load.step # "get_all"
    /\ \E ok \in BOOLEAN :
          load' = IF ok THEN [NoLoad EXCEPT !.step = "get_all",
                                            !.recordings = video_recordings]
                        ELSE [NoLoad EXCEPT !.step = "done", !.result = "Err"]
    /\ UNCHANGED <<video_recordings, clock, unit_jobs, rec>>
    /\ UNCHANGED <<vcsVars, natsVars, gstVars, sdVars, cacheVars>>

\* VideoRecording::get_current()? and the reply: the second statement reads
\* the table again, on a connection of its own, and the reply carries the
\* rows of the first read and the current row of the second.
CameraRecordingLoadGetCurrent ==
    /\ load.step = "get_all"
    /\ \E ok \in BOOLEAN, current \in get_current(video_recordings) :
          load' = IF ok THEN [load EXCEPT !.step = "done",
                                          !.current = current,
                                          !.result = "Ok"]
                        ELSE [NoLoad EXCEPT !.step = "done", !.result = "Err"]
    /\ UNCHANGED <<video_recordings, clock, unit_jobs, rec>>
    /\ UNCHANGED <<vcsVars, natsVars, gstVars, sdVars, cacheVars>>

(***************************************************************************)
(* update_from_cloud                                                       *)
(***************************************************************************)
\* The columns update_from_cloud copies from the cloud's object when they
\* are Some; the objects taken here carry no recording_start and no
\* recording_end.
CloudColumns == {"capture_done", "cloud_sync_done"}

\* VideoRecording::update_from_cloud(obj): UPDATE ... WHERE id = obj.id with
\* the object's capture_done, cloud_sync_done, recording_start and
\* recording_end, each written when it is Some.  An Option<bool> is the set
\* of its values: empty for None.
update_from_cloud(rows, obj) ==
    update(rows, obj.id,
           [c \in {k \in CloudColumns : obj[k] # {}} |->
               CHOOSE b \in obj[c] : TRUE])

UpdateFromCloud ==
    /\ \E id \in DOMAIN video_recordings,
          capture_done \in {{}, {TRUE}, {FALSE}},
          cloud_sync_done \in {{}, {TRUE}, {FALSE}} :
          /\ video_recordings' =
                update_from_cloud(video_recordings,
                                  [id |-> id, capture_done |-> capture_done,
                                   cloud_sync_done |-> cloud_sync_done])
          /\ rec' = [op |-> "update_from_cloud", fail |-> "none",
                     cloud_sync |-> FALSE, job_ok |-> FALSE, id |-> id,
                     unit |-> None, result |-> "Ok", reply |-> None,
                     before |-> [i \in {} |-> NewVideoRecording],
                     prev |-> [op |-> "init", result |-> "Ok", id |-> None]]
    /\ UNCHANGED <<clock, unit_jobs, load>>
    /\ UNCHANGED <<vcsVars, natsVars, gstVars, sdVars, cacheVars>>

(***************************************************************************)
(* Settings repository: one working tree, one tracked file per app         *)
(***************************************************************************)
\* Option::None of a commit id: the parent of a root commit, HEAD of an
\* unborn branch.
NoCommit == 0

\* A request's git_commit that names no commit of the repository.
UnknownOid == 99

\* A file that does not exist (in a tree, in the index or on disk).
Absent == "absent"

\* A file left with merge conflict markers.
Conflict == "conflict"

\* SettingsApp: the domain whose hooks never fail and one of the three
\* whose hooks may; the handlers of the other two are copies of the
\* second one's.
Apps == {"printnanny", "octoprint"}

\* File contents a request may carry.
Contents == {"a", "b"}

\* The commit message a request carries.
Messages == {<<"m1">>}

\* No commit message is given: the Option is None.
NoMessage == <<>>

EmptyTree == [f \in Apps |-> Absent]

\* The tree of commit oid; the empty tree stands in for a missing parent.
TreeOf(oid) == IF oid = NoCommit THEN EmptyTree ELSE commits[oid].tree

\* get_rev_list: the walk from HEAD along the parents, newest first.  The
\* glob pushed besides HEAD is the settings file's path, which names no
\* reference, and on a linear history commit-time order is the parent
\* order.
RECURSIVE Ancestry(_)
Ancestry(oid) ==
    IF oid = NoCommit THEN <<>> ELSE <<oid>> \o Ancestry(commits[oid].parent)

get_rev_list == Ancestry(head)

\* Ancestry over a given object store (used on the primed state).
RECURSIVE AncestryIn(_, _)
AncestryIn(store, oid) ==
    IF oid = NoCommit THEN <<>> ELSE <<oid>> \o AncestryIn(store, store[oid].parent)

\* A mutant of write_settings: an existing file is not overwritten.
write_settings_create_new(files, app, content) ==
    IF files[app] = Absent THEN [files EXCEPT ![app] = content] ELSE files

\* write_settings: create the parent directory when absent, then
\* fs::write the whole content.
write_settings(files, app, content) == [files EXCEPT ![app] = content]

\* to_payload / read_settings: fs::read_to_string of the app's file.
to_payload(files, app) == files[app]

\* git_add_all: index.add_all(["."]) stages every file on disk.
git_add_all(staged, files) ==
    [f \in Apps |-> IF files[f] # Absent THEN files[f] ELSE staged[f]]

\* A mutant of NewCommit: the commit is created without a parent.
NewCommitOrphan(parent, tree, message) ==
    [parent |-> NoCommit, tree |-> tree, message |-> message]

\* repo.commit(Some("HEAD"), sig, sig, msg, tree, [parent_commit]).
NewCommit(parent, tree, message) ==
    [parent |-> parent, tree |-> tree, message |-> message]

\* A parent count that is the number of commits in the history of HEAD.
git_head_commit_parent_count_history == Len(Ancestry(head))

\* git_head_commit_parent_count: the number of direct parents of the HEAD
\* commit; every commit made here has one parent, the root commit none.
git_head_commit_parent_count ==
    IF commits[head].parent = NoCommit THEN 0 ELSE 1

\* get_git_commit_message: "PrintNanny updated {file:?} - revision #{N}".
get_git_commit_message(app) ==
    <<"PrintNanny updated ", app, " - revision #",
      git_head_commit_parent_count + 1>>

\* commit_msg.unwrap_or_else(|| self.get_git_commit_message().unwrap()).
commit_msg(app, message) ==
    IF message = NoMessage THEN get_git_commit_message(app) ELSE message

\* The id of the next commit object: commits are never deleted and each
\* new one has the current HEAD for parent, so its hash is new.
NextOid == Cardinality(DOMAIN commits) + 1

\* A mutant of revert_merge: our side always wins, the revert changes nothing.
revert_merge_ours(ancestor, ours, theirs) == ours

\* repo.revert on one file: the three-way merge with the reverted commit
\* as ancestor, HEAD as our side and the commit's parent as their side.
revert_merge(ancestor, ours, theirs) ==
    IF ours = ancestor THEN theirs
    ELSE IF theirs = ancestor THEN ours
    ELSE IF ours = theirs THEN ours
    ELSE Conflict

\* The tree repo.revert computes for commit oid on top of HEAD.
RevertTree(oid) ==
    [f \in Apps |->
        revert_merge(commits[oid].tree[f], TreeOf(head)[f],
                     TreeOf(commits[oid].parent)[f])]

\* The files the revert changes with respect to HEAD.
RevertPaths(oid) == {f \in Apps : RevertTree(oid)[f] # TreeOf(head)[f]}

\* git_merge__check_result: a file the revert changes carries a staged
\* change other than the revert's result, or an unstaged change.
RevertBlocked(oid) ==
    \E f \in RevertPaths(oid) :
        \/ (index[f] # TreeOf(head)[f] /\ index[f] # RevertTree(oid)[f])
        \/ workdir[f] # index[f]

\* The files after repo.revert: the changed files take the revert's
\* result in the index and on disk; HEAD does not move.
Reverted(files, oid) ==
    [f \in Apps |-> IF f \in RevertPaths(oid) THEN RevertTree(oid)[f] ELSE files[f]]

\* pre_save / post_save: the hooks of PrintNannySettings only log and
\* return Ok; the other apps' hooks may fail.
HookMayFail(app) == app # "printnanny"

\* What a load's record keeps of the call it follows.
Summary(c) == [op |-> c.op, result |-> c.result]

NoCall == [op |-> "init", result |-> "Ok"]

\* The record of a call: the request, its first failing step, the
\* outcome, the file of the reply, HEAD when the call began and, for a
\* load that succeeded, the call before it.  A call that failed keeps no
\* target.
VcsCall(op, app, content, target, fail, file) ==
    LET ok == fail = "none" IN
    [op |-> op, app |-> app, content |-> content,
     target |-> IF ok THEN target ELSE NoCommit, fail |-> fail,
     result |-> IF ok THEN "Ok" ELSE "Err", file |-> file,
     head_before |-> head,
     after |-> IF op = "load" /\ ok THEN Summary(vcs) ELSE NoCall]

(***************************************************************************)
(* save_and_commit and handle_settings_apply                               *)
(***************************************************************************)
\* save_and_commit with the commit made before the file is written.
ApplySteps_commit_first ==
    <<"pre_save", "git_add_all", "git_commit", "write_settings", "post_save",
      "to_payload", "build_settings_apply_reply">>

ApplySteps == <<"pre_save", "write_settings", "git_add_all", "git_commit",
                "post_save", "to_payload", "build_settings_apply_reply">>

\* The steps of an apply that can be the first to fail.  On an unborn
\* branch git_commit fails at repo.head() if nothing failed before it.
ApplyFailPoints(app) ==
    {"write_settings", "git_add_all", "git_commit"}
    \cup (IF HookMayFail(app) THEN {"pre_save"} ELSE {})
    \cup (IF head = NoCommit THEN {}
          ELSE {"none", "to_payload", "build_settings_apply_reply"}
               \cup (IF HookMayFail(app) THEN {"post_save"} ELSE {}))

handle_settings_apply(app, content, message, fail) ==
    LET written   == Passed(ApplySteps, fail, "write_settings")
        staged    == Passed(ApplySteps, fail, "git_add_all")
        committed == Passed(ApplySteps, fail, "git_commit")
        files     == IF written THEN write_settings(workdir, app, content) ELSE workdir
        added     == IF staged THEN git_add_all(index, files) ELSE index
        ok        == fail = "none"
    IN  /\ workdir' = files
        /\ index' = added
        /\ commits' = IF committed
                      THEN (NextOid :> NewCommit(head, added,
                                                 commit_msg(app, message)))
                           @@ commits
                      ELSE commits
        /\ head' = IF committed THEN NextOid ELSE head
        /\ applied' = IF committed
                      THEN (NextOid :> [app |-> app, content |-> content,
                                        message |-> message]) @@ applied
                      ELSE applied
        /\ vcs' = VcsCall("apply", app, content, NoCommit, fail,
                          IF ok THEN to_payload(files, app) ELSE Absent)

SettingsApply ==
    /\ Cardinality(DOMAIN commits) < MaxCommits
    /\ \E app \in Apps, content \in Contents, message \in Messages :
       \E fail \in ApplyFailPoints(app) :
          handle_settings_apply(app, content, message, fail)
    /\ UNCHANGED <<pc, recVars, natsVars, gstVars, sdVars, cacheVars>>

\* save_and_commit(content, None) called on an app's settings: the steps of
\* an apply up to post_save, with the generated commit message.
SaveAndCommit ==
    /\ Cardinality(DOMAIN commits) < MaxCommits
    /\ \E app \in Apps, content \in Contents :
       \E fail \in ApplyFailPoints(app)
                     \ {"to_payload", "build_settings_apply_reply"} :
          handle_settings_apply(app, content, NoMessage, fail)
    /\ UNCHANGED <<pc, recVars, natsVars, gstVars, sdVars, cacheVars>>

(***************************************************************************)
(* git_revert and handle_settings_revert                                   *)
(***************************************************************************)
RevertSteps == <<"pre_save", "git_revert", "post_save", "to_payload",
                 "build_settings_revert_reply">>

\* The commits a revert request may name: the commits made by apply and
\* an id that names no commit.  The clone's initial commit is left out.
RevertTargets == (DOMAIN commits \ {1}) \cup {UnknownOid}

\* git_revert(Some(oid)) can succeed only when find_commit finds the
\* commit, HEAD is born and no uncommitted change stands in the way; a
\* revert that leaves conflicts may be reported as an error or written
\* out with markers.
RevertMayPass(target) ==
    /\ target \in DOMAIN commits
    /\ head # NoCommit
    /\ ~RevertBlocked(target)

RevertFailPoints(app, target) ==
    (IF RevertMayPass(target)
     THEN {"none", "post_save", "to_payload", "build_settings_revert_reply"}
          \ (IF HookMayFail(app) THEN {} ELSE {"post_save"})
     ELSE {})
    \cup (IF RevertMayPass(target)
             /\ \A f \in Apps : RevertTree(target)[f] # Conflict
          THEN {} ELSE {"git_revert"})
    \cup (IF HookMayFail(app) THEN {"pre_save"} ELSE {})

\* git_revert(oid): find_commit, then repo.revert(&commit, None).
git_revert(files, target) == Reverted(files, target)

\* git_revert_hooks(oid): git_revert between the pre_save and post_save
\* hooks.
git_revert_hooks(files, target, fail) ==
    IF Passed(RevertSteps, fail, "git_revert") THEN git_revert(files, target)
    ELSE files

handle_settings_revert(app, target, fail) ==
    LET ok == fail = "none"
        files == git_revert_hooks(workdir, target, fail)
    IN  /\ workdir' = files
        /\ index' = git_revert_hooks(index, target, fail)
        /\ UNCHANGED <<commits, head, applied>>
        /\ vcs' = VcsCall("revert", app, Absent, target, fail,
                          IF ok THEN to_payload(files, app) ELSE Absent)

SettingsRevert ==
    /\ \E app \in Apps, target \in RevertTargets :
       \E fail \in RevertFailPoints(app, target) :
          handle_settings_revert(app, target, fail)
    /\ UNCHANGED <<pc, recVars, natsVars, gstVars, sdVars, cacheVars>>

\* git_revert(None): the commit to revert is repo.head().unwrap()
\* .peel_to_commit()?, so on a repository without commits the unwrap panics;
\* with a HEAD commit the call is git_revert(Some(HEAD)) without the hooks.
\* As in RevertTargets, the clone's initial commit is left out.
GitRevertHead ==
    /\ head \in {NoCommit} \cup RevertTargets
    /\ \E app \in Apps :
          IF head = NoCommit
          THEN /\ vcs' = [VcsCall("revert", app, Absent, NoCommit,
                                  "git_revert", Absent)
                             EXCEPT !.result = "Panic"]
               /\ UNCHANGED <<commits, head, index, workdir, applied>>
          ELSE \E fail \in RevertFailPoints(app, head)
                               \cap {"none", "git_revert"} :
                  handle_settings_revert(app, head, fail)
    /\ UNCHANGED <<pc, recVars, natsVars, gstVars, sdVars, cacheVars>>

(***************************************************************************)
(* handle_settings_load                                                    *)
(***************************************************************************)
\* The load reads HEAD, the history and then every app's file.
LoadMayPass == head # NoCommit /\ \A f \in Apps : workdir[f] # Absent

handle_settings_load(ok) ==
    /\ vcs' = VcsCall("load", "all", Absent, NoCommit,
                      IF ok THEN "none" ELSE "to_payload",
                      IF ok THEN [f \in Apps |-> to_payload(workdir, f)]
                      ELSE Absent)
    /\ UNCHANGED <<commits, head, index, workdir, applied>>

SettingsLoad ==
    /\ \E ok \in BOOLEAN :
          /\ ok => LoadMayPass
          /\ handle_settings_load(ok)
    /\ UNCHANGED <<pc, recVars, natsVars, gstVars, sdVars, cacheVars>>

(***************************************************************************)
(* Initial states                                                          *)
(***************************************************************************)
\* A repository whose root commit tracks every app's file, clean.
VcsInitialised ==
    /\ applied = [o \in {} |-> [app |-> "all", content |-> Absent,
                                 message |-> NoMessage]]
    /\ commits = (1 :> NewCommit(NoCommit, [f \in Apps |-> "a"], <<"init">>))
    /\ head = 1
    /\ index = [f \in Apps |-> "a"]
    /\ workdir = [f \in Apps |-> "a"]

\* A repository without any commit: the files exist, nothing is staged.
VcsUnborn ==
    /\ applied = [o \in {} |-> [app |-> "all", content |-> Absent,
                                 message |-> NoMessage]]
    /\ commits = [o \in {} |-> NewCommit(NoCommit, EmptyTree, NoMessage)]
    /\ head = NoCommit
    /\ index = EmptyTree
    /\ workdir = [f \in Apps |-> "a"]

\* No apply of the app is in flight and none has finished.
NoApply ==
    [step |-> "idle", content |-> Absent, parent |-> NoCommit,
     tree |-> EmptyTree, result |-> None]

VcsNoCall ==
    /\ vcs = [op |-> "init", app |-> "all", content |-> Absent,
              target |-> NoCommit, fail |-> "none", result |-> "Ok",
              file |-> Absent,
              head_before |-> head, after |-> NoCall]
    /\ pc = [app \in Apps |-> NoApply]

VcsIdle == VcsInitialised /\ VcsNoCall

(***************************************************************************)
(* save_and_commit of two apps running at the same time                    *)
(***************************************************************************)
\* handle_settings_apply is called for the app while no apply of that app is
\* in flight: pre_save runs.
ApplyBegin(app) ==
    /\ pc[app].step = "idle"
    /\ Cardinality(DOMAIN commits)
          + Cardinality({a \in Apps : pc[a].step # "idle"}) < MaxCommits
    /\ \E content \in Contents :
          pc' = [pc EXCEPT ![app] = [NoApply EXCEPT !.step = "write_settings",
                                                    !.content = content]]
    /\ UNCHANGED <<commits, head, index, workdir, applied, vcs>>
    /\ UNCHANGED <<recVars, natsVars, gstVars, sdVars, cacheVars>>

\* self.write_settings(content): the app's file is written in the shared
\* working directory.
ApplyWriteSettings(app) ==
    /\ pc[app].step = "write_settings"
    /\ workdir' = write_settings(workdir, app, pc[app].content)
    /\ pc' = [pc EXCEPT ![app].step = "git_add_all"]
    /\ UNCHANGED <<commits, head, index, applied, vcs>>
    /\ UNCHANGED <<recVars, natsVars, gstVars, sdVars, cacheVars>>

\* self.git_add_all(): get_git_repo opens the one repository without a lock
\* and add_all(["."]) stages every file of the working directory.
ApplyGitAddAll(app) ==
    /\ pc[app].step = "git_add_all"
    /\ index' = git_add_all(index, workdir)
    /\ pc' = [pc EXCEPT ![app].step = "git_commit"]
    /\ UNCHANGED <<commits, head, workdir, applied, vcs>>
    /\ UNCHANGED <<recVars, natsVars, gstVars, sdVars, cacheVars>>

\* git_commit up to repo.commit: git_add_all again, index.write_tree() and
\* repo.head()?.peel_to_commit() give the tree and the parent of the commit.
ApplyWriteTree(app) ==
    /\ pc[app].step = "git_commit"
    /\ index' = git_add_all(index, workdir)
    /\ pc' = [pc EXCEPT ![app].step = "repo.commit",
                        ![app].tree = index',
                        ![app].parent = head]
    /\ UNCHANGED <<commits, head, workdir, applied, vcs>>
    /\ UNCHANGED <<recVars, natsVars, gstVars, sdVars, cacheVars>>

\* repo.commit(Some("HEAD"), .., tree, [parent_commit]): the commit is made
\* and HEAD moved when HEAD is still the parent read before; otherwise the
\* call fails and save_and_commit returns the error.
ApplyRepoCommit(app) ==
    /\ pc[app].step = "repo.commit"
    /\ IF head = pc[app].parent
       THEN /\ \E message \in Messages :
                  /\ commits' = (NextOid :> NewCommit(pc[app].parent,
                                                      pc[app].tree, message))
                                @@ commits
                  /\ applied' = (NextOid :> [app |-> app,
                                             content |-> pc[app].content,
                                             message |-> message]) @@ applied
            /\ head' = NextOid
            /\ pc' = [pc EXCEPT ![app].step = "post_save"]
       ELSE /\ pc' = [pc EXCEPT ![app].step = "idle", ![app].result = "Err"]
            /\ UNCHANGED <<commits, head, applied>>
    /\ UNCHANGED <<index, workdir, vcs>>
    /\ UNCHANGED <<recVars, natsVars, gstVars, sdVars, cacheVars>>

\* self.post_save() and the reply: the apply is over.
ApplyPostSave(app) ==
    /\ pc[app].step = "post_save"
    /\ pc' = [pc EXCEPT ![app].step = "idle", ![app].result = "Ok"]
    /\ UNCHANGED <<commits, head, index, workdir, applied, vcs>>
    /\ UNCHANGED <<recVars, natsVars, gstVars, sdVars, cacheVars>>

(***************************************************************************)
(* Protocol dispatch: subjects, request and reply variants                 *)
(***************************************************************************)
\* A subject is the sequence of its dot-separated words with the dots kept
\* as elements, so that str::replace on it can be computed: the subject
\* "pi.{pi_id}.cameras.load" is <<"pi", ".", "{pi_id}", ".", "cameras", ".", "load">>.
RECURSIVE Dotted(_)
Dotted(words) ==
    IF Len(words) <= 1 THEN words
    ELSE <<Head(words), ".">> \o Dotted(Tail(words))

\* The placeholder token of the subject patterns.
PiId == <<"{pi_id}">>

\* "pi.{pi_id}." followed by the given words.
Pattern(words) == <<"pi", ".">> \o PiId \o <<".">> \o Dotted(words)

\* The subject "pi.{pi_id}.dbus.org.freedesktop.systemd1.Manager.<method>".
\* The word systemd1 is kept as the two elements "systemd" and "1": str::replace
\* works on characters, and a device id "1" occurs inside that word.
Systemd1(method) ==
    Pattern(<<"dbus", "org", "freedesktop">>)
        \o <<".", "systemd", "1", ".", "Manager", ".", method>>

\* #[serde(rename = ...)] of each NatsRequest variant.
NatsRequest ==
    [CameraRecordingLoadRequest |-> Pattern(<<"command", "camera", "recording", "load">>),
     CameraRecordingStartRequest |-> Pattern(<<"command", "camera", "recording", "start">>),
     CameraRecordingStopRequest |-> Pattern(<<"command", "camera", "recording", "stop">>),
     CameraLoadRequest |-> Pattern(<<"cameras", "load">>),
     PrintNannyCloudSyncRequest |-> Pattern(<<"command", "cloud", "sync">>),
     CrashReportOsLogsRequest |-> Pattern(<<"crash_reports", "os">>),
     DeviceInfoLoadRequest |-> Pattern(<<"device_info", "load">>),
     PrintNannyCloudAuthRequest |-> Pattern(<<"settings", "printnanny", "cloud", "auth">>),
     SettingsFileLoadRequest |-> Pattern(<<"settings", "file", "load">>),
     SettingsFileApplyRequest |-> Pattern(<<"settings", "file", "apply">>),
     SettingsFileRevertRequest |-> Pattern(<<"settings", "file", "revert">>),
     CameraSettingsFileApplyRequest |-> Pattern(<<"settings", "camera", "apply">>),
     CameraSettingsFileLoadRequest |-> Pattern(<<"settings", "camera", "load">>),
     SystemdManagerDisableUnitsRequest |-> Systemd1("DisableUnit"),
     SystemdManagerEnableUnitsRequest |-> Systemd1("EnableUnit"),
     SystemdManagerGetUnitRequest |-> Systemd1("GetUnit"),
     SystemdManagerGetUnitFileStateRequest |-> Systemd1("GetUnitFileState"),
     SystemdManagerRestartUnitRequest |-> Systemd1("RestartUnit"),
     SystemdManagerStartUnitRequest |-> Systemd1("StartUnit"),
     SystemdManagerStopUnitRequest |-> Systemd1("StopUnit")]

\* #[serde(rename = ...)] of each NatsReply variant.
NatsReply ==
    [CameraRecordingLoadReply |-> Pattern(<<"command", "camera", "recording", "load">>),
     CameraRecordingStartReply |-> Pattern(<<"command", "camera", "recording", "start">>),
     CameraRecordingStopReply |-> Pattern(<<"command", "camera", "recording", "stop">>),
     CameraLoadReply |-> Pattern(<<"cameras", "load">>),
     PrintNannyCloudSyncReply |-> Pattern(<<"command", "cloud", "sync">>),
     CrashReportOsLogsReply |-> Pattern(<<"crash_reports", "os">>),
     DeviceInfoLoadReply |-> Pattern(<<"device_info", "load">>),
     PrintNannyCloudAuthReply |-> Pattern(<<"settings", "printnanny", "cloud", "auth">>),
     SettingsFileLoadReply |-> Pattern(<<"settings", "printnanny", "load">>),
     SettingsFileApplyReply |-> Pattern(<<"settings", "printnanny", "apply">>),
     SettingsFileRevertReply |-> Pattern(<<"settings", "printnanny", "revert">>),
     CameraSettingsFileApplyReply |-> Pattern(<<"settings", "camera", "apply">>),
     CameraSettingsFileLoadReply |-> Pattern(<<"settings", "camera", "load">>),
     SystemdManagerDisableUnitsReply |-> Systemd1("DisableUnit"),
     SystemdManagerEnableUnitsReply |-> Systemd1("EnableUnit"),
     SystemdManagerGetUnitReply |-> Systemd1("GetUnit"),
     SystemdManagerGetUnitFileStateReply |-> Systemd1("GetUnitFileState"),
     SystemdManagerRestartUnitReply |-> Systemd1("RestartUnit"),
     SystemdManagerStartUnitReply |-> Systemd1("StartUnit"),
     SystemdManagerStopUnitReply |-> Systemd1("StopUnit")]

\* The payload type each NatsRequest variant carries; NoPayload for a unit
\* variant.
RequestPayload ==
    [CameraRecordingLoadRequest |-> "NoPayload",
     CameraRecordingStartRequest |-> "NoPayload",
     CameraRecordingStopRequest |-> "NoPayload",
     CameraLoadRequest |-> "NoPayload",
     PrintNannyCloudSyncRequest |-> "NoPayload",
     CrashReportOsLogsRequest |-> "CrashReportOsLogsRequest",
     DeviceInfoLoadRequest |-> "NoPayload",
     PrintNannyCloudAuthRequest |-> "PrintNannyCloudAuthRequest",
     SettingsFileLoadRequest |-> "NoPayload",
     SettingsFileApplyRequest |-> "SettingsFileApplyRequest",
     SettingsFileRevertRequest |-> "SettingsFileRevertRequest",
     CameraSettingsFileApplyRequest |-> "VideoStreamSettings",
     CameraSettingsFileLoadRequest |-> "NoPayload",
     SystemdManagerDisableUnitsRequest |-> "SystemdManagerUnitFilesRequest",
     SystemdManagerEnableUnitsRequest |-> "SystemdManagerUnitFilesRequest",
     SystemdManagerGetUnitRequest |-> "SystemdManagerGetUnitRequest",
     SystemdManagerGetUnitFileStateRequest |-> "SystemdManagerGetUnitRequest",
     SystemdManagerRestartUnitRequest |-> "SystemdManagerRestartUnitRequest",
     SystemdManagerStartUnitRequest |-> "SystemdManagerStartUnitRequest",
     SystemdManagerStopUnitRequest |-> "SystemdManagerStopUnitRequest"]

RequestVariants == DOMAIN NatsRequest
ReplyVariants == DOMAIN NatsReply

\* The payload type a match arm of deserialize_payload parses; NoPayload
\* for an arm that ignores the bytes.
NoPayload == "NoPayload"

\* The match arms of deserialize_payload, in the order of the code:
\* the subject pattern, the variant built and the type parsed.
DecodeArms ==
    <<[subject |-> Pattern(<<"command", "camera", "recording", "start">>),
       request |-> "CameraRecordingStartRequest", schema |-> NoPayload],
      [subject |-> Pattern(<<"command", "camera", "recording", "stop">>),
       request |-> "CameraRecordingStopRequest", schema |-> NoPayload],
      [subject |-> Pattern(<<"command", "camera", "recording", "load">>),
       request |-> "CameraRecordingLoadRequest", schema |-> NoPayload],
      [subject |-> Pattern(<<"command", "cloud", "sync">>),
       request |-> "PrintNannyCloudSyncRequest", schema |-> NoPayload],
      [subject |-> Pattern(<<"crash_reports", "os">>),
       request |-> "CrashReportOsLogsRequest", schema |-> "CrashReportOsLogsRequest"],
      [subject |-> Pattern(<<"cameras", "load">>),
       request |-> "CameraLoadRequest", schema |-> NoPayload],
      [subject |-> Pattern(<<"device_info", "load">>),
       request |-> "DeviceInfoLoadRequest", schema |-> NoPayload],
      [subject |-> Pattern(<<"settings", "printnanny", "cloud", "auth">>),
       request |-> "PrintNannyCloudAuthRequest", schema |-> "PrintNannyCloudAuthRequest"],
      [subject |-> Pattern(<<"settings", "file", "load">>),
       request |-> "SettingsFileLoadRequest", schema |-> NoPayload],
      [subject |-> Pattern(<<"settings", "file", "apply">>),
       request |-> "SettingsFileApplyRequest", schema |-> "SettingsFileApplyRequest"],
      [subject |-> Pattern(<<"settings", "file", "revert">>),
       request |-> "SettingsFileRevertRequest", schema |-> "SettingsFileRevertRequest"],
      [subject |-> Pattern(<<"settings", "camera", "apply">>),
       request |-> "CameraSettingsFileApplyRequest", schema |-> "VideoStreamSettings"],
      [subject |-> Pattern(<<"settings", "camera", "load">>),
       request |-> "CameraSettingsFileLoadRequest", schema |-> NoPayload],
      [subject |-> Systemd1("DisableUnit"),
       request |-> "SystemdManagerDisableUnitsRequest",
       schema |-> "SystemdManagerUnitFilesRequest"],
      [subject |-> Systemd1("EnableUnit"),
       request |-> "SystemdManagerEnableUnitsRequest",
       schema |-> "SystemdManagerUnitFilesRequest"],
      [subject |-> Systemd1("GetUnit"),
       request |-> "SystemdManagerGetUnitRequest",
       schema |-> "SystemdManagerGetUnitRequest"],
      [subject |-> Systemd1("GetUnitFileState"),
       request |-> "SystemdManagerGetUnitFileStateRequest",
       schema |-> "SystemdManagerGetUnitRequest"],
      [subject |-> Systemd1("RestartUnit"),
       request |-> "SystemdManagerRestartUnitRequest",
       schema |-> "SystemdManagerRestartUnitRequest"],
      [subject |-> Systemd1("StartUnit"),
       request |-> "SystemdManagerStartUnitRequest",
       schema |-> "SystemdManagerStartUnitRequest"],
      [subject |-> Systemd1("StopUnit"),
       request |-> "SystemdManagerStopUnitRequest",
       schema |-> "SystemdManagerStopUnitRequest"]>>

\* The subject patterns deserialize_payload knows.
KnownSubjects == {DecodeArms[k].subject : k \in 1..Len(DecodeArms)}

\* The payload types parsed by some arm.
Schemas == {DecodeArms[k].schema : k \in 1..Len(DecodeArms)} \ {NoPayload}

\* handle whose settings load arm answers with the camera settings reply.
HandleReply_shared ==
    [r \in RequestVariants |->
        IF r = "SettingsFileLoadRequest" THEN "CameraSettingsFileLoadReply"
        ELSE IF r = "CameraSettingsFileLoadRequest" THEN "CameraSettingsFileLoadReply"
        ELSE "DeviceInfoLoadReply"]

\* The reply variant each arm of handle builds on success.
HandleReply ==
    [CameraRecordingStartRequest |-> "CameraRecordingStartReply",
     CameraRecordingStopRequest |-> "CameraRecordingStopReply",
     CameraRecordingLoadRequest |-> "CameraRecordingLoadReply",
     PrintNannyCloudSyncRequest |-> "PrintNannyCloudSyncReply",
     CameraLoadRequest |-> "CameraLoadReply",
     CrashReportOsLogsRequest |-> "CrashReportOsLogsReply",
     DeviceInfoLoadRequest |-> "DeviceInfoLoadReply",
     PrintNannyCloudAuthRequest |-> "PrintNannyCloudAuthReply",
     SettingsFileLoadRequest |-> "SettingsFileLoadReply",
     SettingsFileApplyRequest |-> "SettingsFileApplyReply",
     SettingsFileRevertRequest |-> "SettingsFileRevertReply",
     CameraSettingsFileLoadRequest |-> "CameraSettingsFileLoadReply",
     CameraSettingsFileApplyRequest |-> "CameraSettingsFileApplyReply",
     SystemdManagerDisableUnitsRequest |-> "SystemdManagerDisableUnitsReply",
     SystemdManagerEnableUnitsRequest |-> "SystemdManagerEnableUnitsReply",
     SystemdManagerGetUnitRequest |-> "SystemdManagerGetUnitReply",
     SystemdManagerGetUnitFileStateRequest |-> "SystemdManagerGetUnitFileStateReply",
     SystemdManagerRestartUnitRequest |-> "SystemdManagerRestartUnitReply",
     SystemdManagerStartUnitRequest |-> "SystemdManagerStartUnitReply",
     SystemdManagerStopUnitRequest |-> "SystemdManagerStopUnitReply"]

\* The payloads: bytes that are no JSON, the body {"unit_name": ...}, and
\* for each payload type a body written for it.
Payloads == {"garbage", "unit_name"} \cup Schemas

\* The payload types whose required fields are just unit_name.
UnitNameSchemas ==
    {"SystemdManagerGetUnitRequest", "SystemdManagerRestartUnitRequest",
     "SystemdManagerStartUnitRequest", "SystemdManagerStopUnitRequest"}

\* The types the bytes of a payload parse into.
ParsesInto(payload) ==
    IF payload = "unit_name" THEN UnitNameSchemas
    ELSE IF payload \in Schemas THEN {payload}
    ELSE {}

\* serde_json::from_slice::<schema>(payload) on a deserializer that accepts
\* any bytes.
from_slice_lenient(schema, payload) == TRUE

\* serde_json::from_slice::<schema>(payload) succeeds.
from_slice(schema, payload) == schema \in ParsesInto(payload)

\* The errors of deserialize_payload.
NotImplemented == "NATS message handler not implemented for subject pattern"
SerdeJsonError == "serde_json::Error"

\* The result of a call that returned Err(error).
Err(error) == [result |-> "Err", request |-> None, error |-> error]

\* The first match arm of deserialize_payload for the subject; 0 is the
\* default arm.
MatchArm(subject_pattern) ==
    LET hits == {k \in 1..Len(DecodeArms) : DecodeArms[k].subject = subject_pattern}
    IN  IF hits = {} THEN 0
        ELSE CHOOSE k \in hits : \A j \in hits : k <= j

\* deserialize_payload whose default arm builds a request.
deserialize_payload_catch_all(subject_pattern, payload) ==
    LET k == MatchArm(subject_pattern)
    IN  IF k = 0
        THEN [result |-> "Ok", request |-> "DeviceInfoLoadRequest", error |-> None]
        ELSE IF DecodeArms[k].schema # NoPayload
                /\ ~from_slice(DecodeArms[k].schema, payload)
        THEN Err(SerdeJsonError)
        ELSE [result |-> "Ok", request |-> DecodeArms[k].request, error |-> None]

deserialize_payload(subject_pattern, payload) ==
    LET k == MatchArm(subject_pattern)
    IN  IF k = 0
        THEN Err(NotImplemented)
        ELSE IF DecodeArms[k].schema # NoPayload
                /\ ~from_slice(DecodeArms[k].schema, payload)
        THEN Err(SerdeJsonError)
        ELSE [result |-> "Ok", request |-> DecodeArms[k].request, error |-> None]

\* Whether subject starts with pattern.
StartsWith(subject, pattern) ==
    /\ Len(pattern) <= Len(subject)
    /\ SubSeq(subject, 1, Len(pattern)) = pattern

\* subject.replace(pattern, replace): every non-overlapping occurrence,
\* from the left.
RECURSIVE replace_subject_pattern(_, _, _)
replace_subject_pattern(subject, pattern, replace) ==
    IF subject = <<>> THEN <<>>
    ELSE IF pattern # <<>> /\ StartsWith(subject, pattern)
    THEN replace \o replace_subject_pattern(
             SubSeq(subject, Len(pattern) + 1, Len(subject)), pattern, replace)
    ELSE <<Head(subject)>>
             \o replace_subject_pattern(Tail(subject), pattern, replace)

\* The device ids a subject is published under: the one of the unit test,
\* a numeric id, the default hostname prefix and a dotted hostname.
DeviceIds == {<<"localhost">>, <<"1">>, <<"pi">>, <<"octopi", ".", "local">>}

\* The subject a caller publishes on: the pattern with the placeholder
\* replaced by the device id.
ConcreteSubject(pattern, device) ==
    replace_subject_pattern(pattern, PiId, device)

\* Subjects that are no arm of deserialize_payload: the subject patterns of
\* the replies that differ from the requests', a concrete subject, a prefix
\* and an extension of a pattern, the commented-out ReloadUnit, and the
\* empty subject.
UnknownSubjects ==
    {Pattern(<<"settings", "printnanny", "load">>),
     Pattern(<<"settings", "printnanny", "apply">>),
     Pattern(<<"settings", "printnanny", "revert">>),
     ConcreteSubject(Pattern(<<"cameras", "load">>), <<"localhost">>),
     Pattern(<<"cameras">>),
     Pattern(<<"cameras", "load", "all">>),
     Systemd1("ReloadUnit"),
     <<>>}

\* No dispatch call has been made.
NatsNoCall ==
    [op |-> "none", pattern |-> None, device |-> None, subject |-> None,
     payload |-> None, request |-> None, reply |-> None, result |-> None,
     error |-> None, fail |-> None, swallowed |-> FALSE, reactor_io |-> {},
     status_code |-> None]

NatsIdle == nats = NatsNoCall

\* A caller turns the concrete subject of a message back into a pattern.
ReplaceSubjectPattern ==
    /\ \E pattern \in KnownSubjects, device \in DeviceIds :
          nats' = [NatsNoCall EXCEPT
                      !.op = "replace_subject_pattern",
                      !.pattern = pattern,
                      !.device = device,
                      !.subject = replace_subject_pattern(
                                      ConcreteSubject(pattern, device), device, PiId)]
    /\ UNCHANGED <<recVars, vcsVars, gstVars, sdVars, cacheVars>>

\* The subjects the next decode may be called with: any sample, and the
\* result of the replace before it.
DecodeSubjects ==
    IF nats.op = "replace_subject_pattern" THEN {nats.subject}
    ELSE KnownSubjects \cup UnknownSubjects

\* NatsRequest::deserialize_payload(subject_pattern, payload).
DeserializePayload ==
    /\ \E subject_pattern \in DecodeSubjects, payload \in Payloads :
          LET r == deserialize_payload(subject_pattern, payload)
              routed == nats.op = "replace_subject_pattern"
          IN  nats' = [NatsNoCall EXCEPT
                          !.op = "deserialize_payload",
                          !.pattern = IF routed THEN nats.pattern ELSE None,
                          !.device = IF routed THEN nats.device ELSE None,
                          !.subject = subject_pattern,
                          !.payload = payload,
                          !.request = r.request,
                          !.result = r.result,
                          !.error = r.error]
    /\ UNCHANGED <<recVars, vcsVars, gstVars, sdVars, cacheVars>>

\* The error of a handler that failed.
HandlerError == "handler error"

\* One operation of a handler: what it touches (disk, vcs, subprocess, bus,
\* pipeline, http, os, or none), where it runs (inline on the reactor, or on
\* the blocking pool) and whether the handler goes on when it fails.
Inline(op, io) ==
    [op |-> op, io |-> io, pool |-> "reactor", swallowed |-> FALSE]

Blocking(op, io) ==
    [op |-> op, io |-> io, pool |-> "blocking", swallowed |-> FALSE]

Swallowed(o) == [o EXCEPT !.swallowed = TRUE]

\* The fallible operations of the handler of each request, in the order of
\* the code. The stop handler is the path with cloud_sync set and a current
\* recording.
HandlerOps ==
    [CameraRecordingStartRequest |->
        <<Inline("start_new", "disk"),
          Inline("start_video_recording_pipeline", "pipeline"),
          Inline("update", "disk"), Inline("get_by_id", "disk")>>,
     CameraRecordingStopRequest |->
        <<Inline("get_current", "disk"),
          Inline("stop_video_recording_pipeline", "pipeline"),
          Inline("settings", "disk"), Inline("dbus_connection", "bus"),
          Inline("dbus_proxy", "bus"), Swallowed(Inline("start_unit", "bus")),
          Inline("update", "disk"), Inline("get_by_id", "disk")>>,
     CameraRecordingLoadRequest |->
        <<Blocking("get_all", "disk"), Blocking("get_current", "disk")>>,
     PrintNannyCloudSyncRequest |->
        <<Inline("api_service", "none"), Inline("sync", "http"),
          Inline("sync_optional_pipelines", "pipeline")>>,
     CameraLoadRequest |-> <<Blocking("from_libcamera_list", "subprocess")>>,
     CrashReportOsLogsRequest |->
        <<Inline("api_service", "none"),
          Inline("crash_report_update", "http")>>,
     DeviceInfoLoadRequest |->
        <<Inline("settings", "disk"), Blocking("read_issue_txt", "disk"),
          Blocking("read_os_release", "disk"),
          Swallowed(Blocking("getifaddrs", "os"))>>,
     PrintNannyCloudAuthRequest |->
        <<Inline("api_service", "none"),
          Swallowed(Inline("connect_cloud_account", "http"))>>,
     SettingsFileLoadRequest |->
        <<Inline("settings", "disk"), Inline("get_git_head_commit", "vcs"),
          Inline("get_rev_list", "vcs"), Inline("to_payload", "disk")>>,
     SettingsFileApplyRequest |->
        <<Inline("settings", "disk"), Inline("save_and_commit", "vcs"),
          Inline("to_payload", "disk"),
          Inline("build_settings_apply_reply", "none")>>,
     SettingsFileRevertRequest |->
        <<Inline("settings", "disk"), Inline("from_str", "none"),
          Inline("git_revert_hooks", "vcs"), Inline("to_payload", "disk"),
          Inline("build_settings_revert_reply", "none")>>,
     CameraSettingsFileLoadRequest |-> <<Inline("settings", "disk")>>,
     CameraSettingsFileApplyRequest |->
        <<Inline("settings", "disk"), Inline("to_toml_string", "none"),
          Inline("save_and_commit", "vcs")>>,
     SystemdManagerDisableUnitsRequest |->
        <<Inline("dbus_connection", "bus"), Inline("dbus_proxy", "bus"),
          Inline("disable_unit_files", "bus"), Inline("reload", "bus")>>,
     SystemdManagerEnableUnitsRequest |->
        <<Inline("dbus_connection", "bus"), Inline("dbus_proxy", "bus"),
          Inline("enable_unit_files", "bus"), Inline("reload", "bus")>>,
     SystemdManagerGetUnitRequest |->
        <<Inline("dbus_connection", "bus"), Inline("dbus_proxy", "bus"),
          Inline("load_unit", "bus"),
          Inline("from_owned_object_path", "bus")>>,
     SystemdManagerGetUnitFileStateRequest |->
        <<Inline("dbus_connection", "bus"), Inline("dbus_proxy", "bus"),
          Inline("get_unit_file_state", "bus")>>,
     SystemdManagerRestartUnitRequest |->
        <<Inline("dbus_connection", "bus"), Inline("dbus_proxy", "bus"),
          Inline("restart_unit", "bus"), Inline("get_systemd_unit", "bus")>>,
     SystemdManagerStartUnitRequest |->
        <<Inline("dbus_connection", "bus"), Inline("dbus_proxy", "bus"),
          Inline("start_unit", "bus"), Inline("get_systemd_unit", "bus")>>,
     SystemdManagerStopUnitRequest |->
        <<Inline("dbus_connection", "bus"), Inline("dbus_proxy", "bus"),
          Inline("stop_unit", "bus"), Inline("get_systemd_unit", "bus")>>]

\* The status codes of the cloud-auth reply.
StatusOk == 200
StatusForbidden == 403

\* A handler that replies Ok whatever failed.
handle_ignore_errors(request, fail) ==
    LET ops == HandlerOps[request]
    IN  [result |-> "Ok", reply |-> HandleReply[request], error |-> None,
         fail |-> IF fail = 0 THEN None ELSE ops[fail].op,
         swallowed |-> fail # 0,
         reactor_io |-> {ops[i].io : i \in {j \in 1..Len(ops) :
                                               ops[j].pool = "reactor"}},
         status_code |-> None]

\* A handler that hands every failure to its caller with ?.
handle_propagate_all(request, fail) ==
    LET ops == HandlerOps[request]
        ran == IF fail = 0 THEN 1..Len(ops) ELSE 1..fail
    IN  [result |-> IF fail = 0 THEN "Ok" ELSE "Err",
         reply |-> IF fail = 0 THEN HandleReply[request] ELSE None,
         error |-> IF fail = 0 THEN None ELSE HandlerError,
         fail |-> IF fail = 0 THEN None ELSE ops[fail].op,
         swallowed |-> FALSE,
         reactor_io |-> {ops[i].io : i \in {j \in ran :
                                               ops[j].pool = "reactor"}},
         status_code |-> IF request # "PrintNannyCloudAuthRequest" \/ fail # 0
                            THEN None ELSE StatusOk]

\* request.handle() when the operation numbered fail fails (0: none does).
\* A failure the handler propagates with ? ends it with the error; one it
\* only logs or matches on lets it run to its Ok reply.
handle(request, fail) ==
    LET ops == HandlerOps[request]
        swallowed == fail # 0 /\ ops[fail].swallowed
        ok == fail = 0 \/ swallowed
        ran == IF ok THEN 1..Len(ops) ELSE 1..fail
    IN  [result |-> IF ok THEN "Ok" ELSE "Err",
         reply |-> IF ok THEN HandleReply[request] ELSE None,
         error |-> IF ok THEN None ELSE HandlerError,
         fail |-> IF fail = 0 THEN None ELSE ops[fail].op,
         swallowed |-> swallowed,
         reactor_io |-> {ops[i].io : i \in {j \in ran :
                                               ops[j].pool = "reactor"}},
         status_code |-> IF request # "PrintNannyCloudAuthRequest" \/ ~ok
                            THEN None
                            ELSE IF fail = 0 THEN StatusOk
                                             ELSE StatusForbidden]

\* request.handle() on the request the last deserialize_payload returned, with
\* at most one of its operations failing.
Handle ==
    /\ nats.op = "deserialize_payload"
    /\ nats.result = "Ok"
    /\ \E fail \in 0..Len(HandlerOps[nats.request]) :
          \E r \in {handle(nats.request, fail)} :
             nats' = [NatsNoCall EXCEPT
                         !.op = "handle",
                         !.subject = nats.subject,
                         !.request = nats.request,
                         !.reply = r.reply,
                         !.result = r.result,
                         !.error = r.error,
                         !.fail = r.fail,
                         !.swallowed = r.swallowed,
                         !.reactor_io = r.reactor_io,
                         !.status_code = r.status_code]
    /\ UNCHANGED <<recVars, vcsVars, gstVars, sdVars, cacheVars>>

(***************************************************************************)
(* Pipeline orchestrator: PrintNannyPipelineFactory                        *)
(***************************************************************************)
\* The pipelines start_pipelines makes, in the order of the code: the name,
\* the pipeline it listens to (None for the camera source), and the setting
\* whose enabled flag guards it (None for a pipeline always made).
Pipelines_hls_first ==
    <<[name |-> "camera", listen_to |-> None, flag |-> None],
      [name |-> "snapshot", listen_to |-> "camera", flag |-> "snapshot"],
      [name |-> "hls", listen_to |-> "h264", flag |-> "hls"],
      [name |-> "h264", listen_to |-> "camera", flag |-> None],
      [name |-> "rtp", listen_to |-> "h264", flag |-> None],
      [name |-> "tflite_inference", listen_to |-> "camera", flag |-> None],
      [name |-> "bounding_boxes", listen_to |-> "tflite_inference", flag |-> None],
      [name |-> "df", listen_to |-> "tflite_inference", flag |-> None]>>

Pipelines ==
    <<[name |-> "camera", listen_to |-> None, flag |-> None],
      [name |-> "snapshot", listen_to |-> "camera", flag |-> "snapshot"],
      [name |-> "h264", listen_to |-> "camera", flag |-> None],
      [name |-> "hls", listen_to |-> "h264", flag |-> "hls"],
      [name |-> "rtp", listen_to |-> "h264", flag |-> None],
      [name |-> "tflite_inference", listen_to |-> "camera", flag |-> None],
      [name |-> "bounding_boxes", listen_to |-> "tflite_inference", flag |-> None],
      [name |-> "df", listen_to |-> "tflite_inference", flag |-> None]>>

\* Every pipeline is made, whatever the settings say.
enabled_always(pipeline, snapshot, hls) == TRUE

\* if snapshot_settings.enabled / if hls_settings.enabled.
enabled(pipeline, snapshot, hls) ==
    IF pipeline.flag = "snapshot" THEN snapshot
    ELSE IF pipeline.flag = "hls" THEN hls
    ELSE TRUE

\* The answers of the server to pipeline.create(description): created,
\* HTTP 409 for a name it already holds, another bad status, or no answer.
CreateAnswers(held, name) ==
    IF name \in held THEN {"CONFLICT", "BadStatus", "transport"}
    ELSE {"OK", "BadStatus", "transport"}

\* The answer of the server to a create call that reaches it and passes.
CreateAnswer(held, name) == IF name \in held THEN "CONFLICT" ELSE "OK"

\* make_pipeline that propagates every error of create.
make_pipeline_strict(answer) ==
    IF answer = "OK" THEN [result |-> "Ok", error |-> None]
    ELSE [result |-> "Err", error |-> answer]

\* make_pipeline that answers Ok to every bad status.
make_pipeline_any_status(answer) ==
    IF answer \in {"OK", "CONFLICT", "BadStatus"} THEN [result |-> "Ok", error |-> None]
    ELSE [result |-> "Err", error |-> answer]

\* make_pipeline, given the answer to its create call: Ok(pipeline) for a
\* created pipeline and for BadStatus(CONFLICT), the error otherwise.
make_pipeline(answer) ==
    IF answer \in {"OK", "CONFLICT"} THEN [result |-> "Ok", error |-> None]
    ELSE [result |-> "Err", error |-> answer]

\* The calls start_pipelines makes when none fails: create then play for each
\* enabled pipeline.
RECURSIVE PlannedCalls(_, _, _)
PlannedCalls(pipelines, snapshot, hls) ==
    IF pipelines = <<>> THEN <<>>
    ELSE LET p == Head(pipelines)
             rest == PlannedCalls(Tail(pipelines), snapshot, hls)
         IN  IF enabled(p, snapshot, hls)
             THEN <<[call |-> "create", name |-> p.name, listen_to |-> p.listen_to],
                    [call |-> "play", name |-> p.name, listen_to |-> p.listen_to]>>
                  \o rest
             ELSE rest

\* The outcome of running the planned calls from call number k on, against a
\* server holding `held` with `active` playing, when call number fail (0:
\* none) is answered with the error: the calls made with their answers
\* (after those of `log`), the result, and the server.
RECURSIVE RunCalls(_, _, _, _, _, _, _)
RunCalls(calls, k, fail, error, held, active, log) ==
    IF calls = <<>>
    THEN [calls |-> log, result |-> "Ok", error |-> None,
          server |-> held, playing |-> active]
    ELSE LET c == Head(calls)
             answer == IF k = fail THEN error
                       ELSE IF c.call = "create" THEN CreateAnswer(held, c.name)
                       ELSE "OK"
             done == [call |-> c.call, name |-> c.name, listen_to |-> c.listen_to,
                      answer |-> answer]
             passed == IF c.call = "create" THEN make_pipeline(answer).result = "Ok"
                       ELSE answer = "OK"
             held2 == IF c.call = "create" /\ answer = "OK"
                      THEN held \cup {c.name} ELSE held
             active2 == IF c.call = "play" /\ answer = "OK"
                        THEN active \cup {c.name} ELSE active
         IN  IF ~passed
             THEN [calls |-> Append(log, done), result |-> "Err", error |-> answer,
                   server |-> held2, playing |-> active2]
             ELSE RunCalls(Tail(calls), k + 1, fail, error, held2, active2,
                           Append(log, done))

\* start_pipelines that deletes the pipelines it created when a call fails.
start_pipelines_rollback(snapshot, hls, fail, error, held, active) ==
    LET r == RunCalls(PlannedCalls(Pipelines, snapshot, hls), 1, fail, error,
                      held, active, <<>>)
    IN  IF r.result = "Err"
        THEN [r EXCEPT !.server = held, !.playing = active]
        ELSE r

\* start_pipelines after its settings are loaded.
start_pipelines(snapshot, hls, fail, error, held, active) ==
    RunCalls(PlannedCalls(Pipelines, snapshot, hls), 1, fail, error, held, active,
             <<>>)

\* The errors a failing create or play call is answered with.
CallErrors == {"BadStatus", "transport"}

\* No factory call has been made.  Of a call the record keeps the settings,
\* the calls made with their answers, the outcome, the pipelines the server
\* held before, whether a make_pipeline repeats the one before it, and
\* whether a start_pipelines follows one with the same settings that failed
\* after its first call.
GstNoCall ==
    [op |-> "none", snapshot |-> FALSE, hls |-> FALSE, calls |-> <<>>,
     result |-> None, error |-> None, before |-> {}, repeated |-> FALSE,
     retry |-> FALSE]

GstIdle == server = {} /\ playing = {} /\ gst = GstNoCall

\* PrintNannyPipelineFactory::start_pipelines: the settings load fails, or
\* the calls are made up to the first that fails.
StartPipelines ==
    /\ \E settings_ok \in BOOLEAN, snapshot \in BOOLEAN, hls \in BOOLEAN :
          IF ~settings_ok
          THEN /\ gst' = [GstNoCall EXCEPT
                             !.op = "start_pipelines",
                             !.result = "Err",
                             !.error = "PrintNannySettings::new",
                             !.before = server]
               /\ UNCHANGED <<server, playing>>
          ELSE \E fail \in 0..Len(PlannedCalls(Pipelines, snapshot, hls)) :
               \E error \in IF fail = 0 THEN {None} ELSE CallErrors :
               \E r \in {start_pipelines(snapshot, hls, fail, error, server, playing)} :
                  /\ gst' = [GstNoCall EXCEPT
                                !.op = "start_pipelines",
                                !.snapshot = snapshot,
                                !.hls = hls,
                                !.calls = r.calls,
                                !.result = r.result,
                                !.error = r.error,
                                !.before = server,
                                !.retry = /\ gst.op = "start_pipelines"
                                          /\ gst.result = "Err"
                                          /\ gst.calls # <<>>
                                          /\ gst.snapshot = snapshot
                                          /\ gst.hls = hls]
                  /\ server' = r.server
                  /\ playing' = r.playing
    /\ UNCHANGED <<recVars, vcsVars, natsVars, sdVars, cacheVars>>

\* The names make_pipeline is called with on its own.
ProvisionNames == {"camera", "h264"}

\* PrintNannyPipelineFactory::make_pipeline(pipeline_name, description).
MakePipeline ==
    /\ \E name \in ProvisionNames :
       \E answer \in CreateAnswers(server, name) :
          LET r == make_pipeline(answer)
          IN  /\ gst' = [GstNoCall EXCEPT
                            !.op = "make_pipeline",
                            !.calls = <<[call |-> "create", name |-> name,
                                         listen_to |-> None, answer |-> answer]>>,
                            !.result = r.result,
                            !.error = r.error,
                            !.before = server,
                            !.repeated = /\ gst.op = "make_pipeline"
                                         /\ gst.result = "Ok"
                                         /\ gst.calls[1].name = name]
              /\ server' = IF answer = "OK" THEN server \cup {name} ELSE server
    /\ UNCHANGED playing
    /\ UNCHANGED <<recVars, vcsVars, natsVars, sdVars, cacheVars>>

(***************************************************************************)
(* Init-system adapter: the systemd1.Manager handlers                      *)
(***************************************************************************)
\* The unit names of the requests: two units the init system knows and
\* one it does not.
Units == {"octoprint.service", "printnanny-cam.service"}
UnitNames == Units \cup {"doesnotexist.service"}

\* The unit file states of the installed units: three of the nine states the
\* adapter knows and one that systemd reports besides them.
UnitFileStates == {"enabled", "disabled", "static", "indirect"}

\* The change types the handlers match.
KnownChangeTypes == {"symlink", "unlink"}

\* A change type systemd reports besides symlink and unlink.
OtherChangeType == "is-dangling"

\* The value of an expression that ended in unimplemented!().
Unimplemented == "unimplemented!"

\* The match on change_type of handle_disable_units_request and
\* handle_enable_units_request: the SystemdUnitChangeState built per arm.
SystemdUnitChangeState(change_type) ==
    IF change_type = "symlink" THEN "Symlink"
    ELSE IF change_type = "unlink" THEN "Symlink"
    ELSE Unimplemented

\* The match of handle_get_unit_file_state_request with a default arm that
\* answers Invalid.
SystemdUnitFileState_coerced(unit_file_state) ==
    IF unit_file_state = "enabled" THEN "Enabled"
    ELSE IF unit_file_state = "disabled" THEN "Disabled"
    ELSE IF unit_file_state = "static" THEN "Static"
    ELSE "Invalid"

\* The match on unit_file_state of handle_get_unit_file_state_request.
SystemdUnitFileState(unit_file_state) ==
    IF unit_file_state = "enabled" THEN "Enabled"
    ELSE IF unit_file_state = "enabled-runtime" THEN "EnabledMinusRuntime"
    ELSE IF unit_file_state = "linked" THEN "Linked"
    ELSE IF unit_file_state = "linked-runtime" THEN "LinkedMinusRuntime"
    ELSE IF unit_file_state = "masked" THEN "Masked"
    ELSE IF unit_file_state = "masked-runtime" THEN "MaskedMinusRuntime"
    ELSE IF unit_file_state = "static" THEN "Static"
    ELSE IF unit_file_state = "disabled" THEN "Disabled"
    ELSE IF unit_file_state = "invalid" THEN "Invalid"
    ELSE Unimplemented

\* The values of the SystemdUnitFileState enumeration.
SystemdUnitFileStates ==
    {"Enabled", "EnabledMinusRuntime", "Linked", "LinkedMinusRuntime", "Masked",
     "MaskedMinusRuntime", "Static", "Disabled", "Invalid"}

\* The change types systemd answers EnableUnitFiles / DisableUnitFiles
\* with: one symlink for a disabled unit that is enabled, one unlink for an
\* enabled unit that is disabled, none when the unit is in the state
\* already; `other` adds a change of a type besides the two.
RawChanges(method, state, other) ==
    (IF method = "EnableUnitFiles" /\ state = "disabled" THEN <<"symlink">>
     ELSE IF method = "DisableUnitFiles" /\ state = "enabled" THEN <<"unlink">>
     ELSE <<>>)
    \o (IF other THEN <<OtherChangeType>> ELSE <<>>)

\* The unit file state after the method.
StateAfter(method, state) ==
    IF method = "EnableUnitFiles" /\ state = "disabled" THEN "enabled"
    ELSE IF method = "DisableUnitFiles" /\ state = "enabled" THEN "disabled"
    ELSE state

\* The handlers with the daemon reload issued before the unit files call.
UnitFilesSteps_reload_first ==
    <<"dbus_connection", "dbus_proxy", "reload", "unit_files", "map_changes">>

\* The steps of handle_enable_units_request and handle_disable_units_request,
\* in the order the code runs them.
UnitFilesSteps ==
    <<"dbus_connection", "dbus_proxy", "unit_files", "map_changes", "reload">>

\* The fallible steps: the three bus calls and the connection.  A unit the
\* init system does not know makes the unit files call fail at the latest.
UnitFilesFailPoints(unit) ==
    {"dbus_connection", "dbus_proxy", "unit_files"}
    \cup (IF unit \in Units THEN {"none", "reload"} ELSE {})

\* No adapter call has been made.
SdNoCall ==
    [op |-> "none", unit |-> None, fail |-> "none", calls |-> <<>>,
     raw |-> <<>>, changes |-> <<>>, state |-> None, result |-> None,
     reply |-> None]

\* handle_enable_units_request / handle_disable_units_request for one unit
\* file: the bus method, the mapping of the changes, the reload, the reply.
handle_unit_files_request(op, method, unit, fail, other) ==
    LET called   == Passed(UnitFilesSteps, fail, "dbus_proxy")
        answered == Passed(UnitFilesSteps, fail, "unit_files")
        raw      == IF answered THEN RawChanges(method, unit_files[unit], other)
                    ELSE <<>>
        mapped   == [i \in 1..Len(raw) |-> SystemdUnitChangeState(raw[i])]
        panics   == \E i \in 1..Len(mapped) : mapped[i] = Unimplemented
        stopped  == panics \/ ~Passed(UnitFilesSteps, fail, "map_changes")
        log      == <<>>
                    \o (IF called /\ StepIndex(UnitFilesSteps, "reload")
                                      < StepIndex(UnitFilesSteps, "unit_files")
                        THEN <<"Reload">> ELSE <<>>)
                    \o (IF called /\ (answered \/ fail = "unit_files")
                        THEN <<method>> ELSE <<>>)
                    \o (IF ~stopped /\ StepIndex(UnitFilesSteps, "unit_files")
                                        < StepIndex(UnitFilesSteps, "reload")
                        THEN <<"Reload">> ELSE <<>>)
        ok       == fail = "none" /\ ~panics
    IN  /\ unit_files' = IF answered
                         THEN [unit_files EXCEPT
                                  ![unit] = StateAfter(method, unit_files[unit])]
                         ELSE unit_files
        /\ sd' = [SdNoCall EXCEPT
                     !.op = op, !.unit = unit, !.fail = fail, !.calls = log,
                     !.raw = raw,
                     !.changes = IF ok THEN mapped ELSE <<>>,
                     !.state = IF unit \in Units THEN unit_files[unit] ELSE None,
                     !.result = IF panics THEN "panic"
                                ELSE IF ok THEN "Ok" ELSE "Err",
                     !.reply = IF ~ok THEN None
                               ELSE IF op = "enable"
                               THEN "SystemdManagerEnableUnitsReply"
                               ELSE "SystemdManagerDisableUnitsReply"]

EnableUnits ==
    /\ \E unit \in UnitNames, other \in BOOLEAN :
       \E fail \in UnitFilesFailPoints(unit) :
          handle_unit_files_request("enable", "EnableUnitFiles", unit, fail, other)
    /\ UNCHANGED <<recVars, vcsVars, natsVars, gstVars, cacheVars>>

DisableUnits ==
    /\ \E unit \in UnitNames, other \in BOOLEAN :
       \E fail \in UnitFilesFailPoints(unit) :
          handle_unit_files_request("disable", "DisableUnitFiles", unit, fail, other)
    /\ UNCHANGED <<recVars, vcsVars, natsVars, gstVars, cacheVars>>

\* The error of a bus call.
BusError == "zbus::Error"

\* The answer of the init system to GetUnitFileState: the state of a unit
\* it knows, an error for a unit it does not know.
get_unit_file_state(unit) ==
    IF unit \in Units THEN unit_files[unit] ELSE BusError

\* handle_get_unit_file_state_request that answers Invalid to a bus error.
get_unit_file_state_reply_lenient(answer) ==
    IF answer = BusError
    THEN [result |-> "Ok", state |-> "Invalid"]
    ELSE IF SystemdUnitFileState(answer) = Unimplemented
    THEN [result |-> "panic", state |-> None]
    ELSE [result |-> "Ok", state |-> SystemdUnitFileState(answer)]

\* handle_get_unit_file_state_request from the answer of the bus call on:
\* the error through `?`, the match, the reply.
get_unit_file_state_reply(answer) ==
    IF answer = BusError
    THEN [result |-> "Err", state |-> None]
    ELSE IF SystemdUnitFileState(answer) = Unimplemented
    THEN [result |-> "panic", state |-> None]
    ELSE [result |-> "Ok", state |-> SystemdUnitFileState(answer)]

GetUnitFileStateSteps == <<"dbus_connection", "dbus_proxy", "get_unit_file_state">>

handle_get_unit_file_state_request(unit, fail) ==
    LET answered == fail = "none"
        answer   == IF answered THEN get_unit_file_state(unit) ELSE BusError
        r        == get_unit_file_state_reply(answer)
    IN  /\ sd' = [SdNoCall EXCEPT
                     !.op = "get_unit_file_state", !.unit = unit, !.fail = fail,
                     !.calls = IF Passed(GetUnitFileStateSteps, fail, "dbus_proxy")
                               THEN <<"GetUnitFileState">> ELSE <<>>,
                     !.state = IF answered /\ unit \in Units
                               THEN unit_files[unit] ELSE None,
                     !.result = r.result,
                     !.reply = r.state]
        /\ UNCHANGED unit_files

GetUnitFileState ==
    /\ \E unit \in UnitNames :
       \E fail \in FailPoints(GetUnitFileStateSteps) :
          handle_get_unit_file_state_request(unit, fail)
    /\ UNCHANGED <<recVars, vcsVars, natsVars, gstVars, cacheVars>>

\* The installed units are in any of the states; no call has been made.
SdInstalled == unit_files \in [Units -> UnitFileStates] /\ sd = SdNoCall

\* The units as the other specifications leave them.
SdIdle == unit_files = [u \in Units |-> "disabled"] /\ sd = SdNoCall

(***************************************************************************)
(* Model cache: ApiService::load_model                                     *)
(***************************************************************************)
\* The cache paths load_model is called with and the models a remote
\* fallback may return.
Paths == {"pi.json", "user.json"}

Models == {"m1", "m2"}

\* What a path holds: no file, a file that is no JSON of the model type (an
\* empty or truncated file among them), or the JSON of a model.
NoFile == [kind |-> "absent", model |-> None]

Unparsable == [kind |-> "unparsable", model |-> None]

\* serde_json::to_writer(file, model): the file holds the JSON of the model.
to_writer(model) == [kind |-> "json", model |-> model]

\* read_model_json: open(path)?, then serde_json::from_reader(reader)?.
read_model_json(file) ==
    IF file.kind = "json" THEN [result |-> "Ok", model |-> file.model]
    ELSE [result |-> "Err", model |-> None]

\* save_model_json: File::create(path)? truncates or creates the file, then
\* to_writer writes it; `fault` is the step that fails ("none": neither).
save_model_json(file, model, fault) ==
    IF fault = "create" THEN [result |-> "Err", file |-> file]
    ELSE IF fault = "to_writer" THEN [result |-> "Err", file |-> Unparsable]
    ELSE [result |-> "Ok", file |-> to_writer(model)]

\* The faults of a save.
SaveFaults == {"none", "create", "to_writer"}

\* The error of a fallback that failed.
RemoteError == "remote error"

\* A load_model that does not save what its fallback returned.
load_model_no_save(file, remote, fault) ==
    LET m == read_model_json(file)
    IN  IF m.result = "Ok"
        THEN [result |-> "Ok", model |-> m.model, error |-> None,
              fallback |-> FALSE, file |-> file]
        ELSE IF remote = RemoteError
        THEN [result |-> "Err", model |-> None, error |-> RemoteError,
              fallback |-> TRUE, file |-> file]
        ELSE [result |-> "Ok", model |-> remote, error |-> None,
              fallback |-> TRUE, file |-> file]

\* load_model(path, f): the cached model when the file reads and parses;
\* otherwise f is awaited, its model saved to the path and returned, its
\* error returned, and a failed save returned as WriteIOError.
load_model(file, remote, fault) ==
    LET m == read_model_json(file)
    IN  IF m.result = "Ok"
        THEN [result |-> "Ok", model |-> m.model, error |-> None,
              fallback |-> FALSE, file |-> file]
        ELSE IF remote = RemoteError
        THEN [result |-> "Err", model |-> None, error |-> RemoteError,
              fallback |-> TRUE, file |-> file]
        ELSE LET saved == save_model_json(file, remote, fault)
             IN  IF saved.result = "Ok"
                 THEN [result |-> "Ok", model |-> remote, error |-> None,
                       fallback |-> TRUE, file |-> saved.file]
                 ELSE [result |-> "Err", model |-> None,
                       error |-> "WriteIOError", fallback |-> TRUE,
                       file |-> saved.file]

\* No load_model call has been made on the path.
NoLoadModel ==
    [op |-> "none", before |-> NoFile, remote |-> None, fault |-> "none",
     result |-> None, model |-> None, error |-> None, fallback |-> FALSE,
     prev |-> [result |-> None, model |-> None, fallback |-> FALSE]]

\* ApiService::load_model(path, f): what f would return and which step of a
\* save would fail are the call's inputs.
LoadModel ==
    /\ \E path \in Paths, remote \in Models \cup {RemoteError},
          fault \in SaveFaults :
       \E r \in {load_model(cache[path], remote, fault)} :
          /\ cache' = [cache EXCEPT ![path] = r.file]
          /\ lm' = [lm EXCEPT ![path] =
                       [op |-> "load_model", before |-> cache[path],
                        remote |-> remote, fault |-> fault,
                        result |-> r.result, model |-> r.model,
                        error |-> r.error, fallback |-> r.fallback,
                        prev |-> [result |-> lm[path].result,
                                  model |-> lm[path].model,
                                  fallback |-> lm[path].fallback]]]
    /\ UNCHANGED <<recVars, vcsVars, natsVars, gstVars, sdVars>>

\* Before the first call each path holds any of the files.
CacheFiles == {NoFile, Unparsable} \cup {to_writer(m) : m \in Models}

CacheAny == cache \in [Paths -> CacheFiles] /\ lm = [p \in Paths |-> NoLoadModel]

CacheIdle == cache = [p \in Paths |-> NoFile] /\ lm = [p \in Paths |-> NoLoadModel]

(***************************************************************************)
(* Spec: the recording lifecycle manager                                   *)
(***************************************************************************)
RecIdle ==
    /\ load = NoLoad
    /\ video_recordings = [i \in {} |-> NewVideoRecording]
    /\ clock = NULL
    /\ unit_jobs = {}
    /\ rec = [op |-> "init", fail |-> "none", cloud_sync |-> FALSE,
              job_ok |-> FALSE, id |-> None, unit |-> None, result |-> "Ok",
              reply |-> None, before |-> [i \in {} |-> NewVideoRecording],
              prev |-> [op |-> "init", result |-> "Ok", id |-> None]]

Init == RecIdle /\ VcsIdle /\ NatsIdle /\ GstIdle /\ SdIdle
    /\ CacheIdle

Next == CameraRecordingStart \/ CameraRecordingStop

Spec == Init /\ [][Next]_vars

(***************************************************************************)
(* SpecCloud: the recording lifecycle with updates from the cloud          *)
(***************************************************************************)
InitCloud == RecIdle /\ VcsIdle /\ NatsIdle /\ GstIdle /\ SdIdle
    /\ CacheIdle

NextCloud == CameraRecordingStart \/ CameraRecordingStop \/ UpdateFromCloud

SpecCloud == InitCloud /\ [][NextCloud]_vars

(***************************************************************************)
(* SpecLoad: recording loads running while recordings start and stop       *)
(***************************************************************************)
InitLoad == RecIdle /\ VcsIdle /\ NatsIdle /\ GstIdle /\ SdIdle
    /\ CacheIdle

NextLoad ==
    \/ CameraRecordingStart
    \/ CameraRecordingStop
    \/ CameraRecordingLoadGetAll
    \/ CameraRecordingLoadGetCurrent

SpecLoad == InitLoad /\ [][NextLoad]_vars

(***************************************************************************)
(* SpecCache: the model cache                                              *)
(***************************************************************************)
InitCache == RecIdle /\ VcsIdle /\ NatsIdle /\ GstIdle /\ SdIdle /\ CacheAny

NextCache == LoadModel

SpecCache == InitCache /\ [][NextCache]_vars

(***************************************************************************)
(* SpecVcs: the version-controlled settings engine                         *)
(***************************************************************************)
InitVcs ==
    /\ RecIdle /\ (VcsInitialised \/ VcsUnborn) /\ VcsNoCall
    /\ NatsIdle /\ GstIdle /\ SdIdle /\ CacheIdle

NextVcs == SettingsApply \/ SettingsRevert \/ SettingsLoad

SpecVcs == InitVcs /\ [][NextVcs]_vars

(***************************************************************************)
(* SpecSave: commits made with and without a commit message                *)
(***************************************************************************)
NextSave == SettingsApply \/ SaveAndCommit

SpecSave == InitVcs /\ [][NextSave]_vars

(***************************************************************************)
(* SpecRevert: the settings engine with reverts that name no commit        *)
(***************************************************************************)
NextRevert ==
    \/ SettingsApply
    \/ SettingsRevert
    \/ GitRevertHead
    \/ SettingsLoad

SpecRevert == InitVcs /\ [][NextRevert]_vars

(***************************************************************************)
(* SpecVcsConc: applies of different apps running at the same time, at     *)
(* most one in flight per app                                              *)
(***************************************************************************)
InitVcsConc == RecIdle /\ VcsIdle /\ NatsIdle /\ GstIdle /\ SdIdle
    /\ CacheIdle

NextVcsConc ==
    \E app \in Apps :
        \/ ApplyBegin(app)
        \/ ApplyWriteSettings(app)
        \/ ApplyGitAddAll(app)
        \/ ApplyWriteTree(app)
        \/ ApplyRepoCommit(app)
        \/ ApplyPostSave(app)

SpecVcsConc == InitVcsConc /\ [][NextVcsConc]_vars

(***************************************************************************)
(* SpecNats: the protocol dispatch layer                                   *)
(***************************************************************************)
InitNats == RecIdle /\ VcsIdle /\ NatsIdle /\ GstIdle /\ SdIdle
    /\ CacheIdle

NextNats == ReplaceSubjectPattern \/ DeserializePayload \/ Handle

SpecNats == InitNats /\ [][NextNats]_vars

(***************************************************************************)
(* SpecGst: the pipeline orchestrator                                      *)
(***************************************************************************)
InitGst == RecIdle /\ VcsIdle /\ NatsIdle /\ GstIdle /\ SdIdle
    /\ CacheIdle

NextGst == StartPipelines \/ MakePipeline

SpecGst == InitGst /\ [][NextGst]_vars

(***************************************************************************)
(* SpecSystemd: the init-system adapter                                    *)
(***************************************************************************)
InitSystemd == RecIdle /\ VcsIdle /\ NatsIdle /\ GstIdle /\ SdInstalled
    /\ CacheIdle

NextSystemd == EnableUnits \/ DisableUnits \/ GetUnitFileState

SpecSystemd == InitSystemd /\ [][NextSystemd]_vars

(***************************************************************************)
(* Claims about the protocol dispatch layer (checked under SpecNats)       *)
(***************************************************************************)
\* The subject patterns of the NatsRequest variants.
RequestSubjects == {NatsRequest[v] : v \in RequestVariants}

\* The request variant tagged with the subject pattern.
VariantOf(subject) == CHOOSE v \in RequestVariants : NatsRequest[v] = subject

\* C11: for every subject that is not the subject pattern of a request
\* variant, deserialize_payload returns the error of its default arm and no
\* request, whatever the payload.
C11_UnknownSubjectIsError ==
    (nats.op = "deserialize_payload" /\ nats.subject \notin RequestSubjects)
        => /\ nats.result = "Err"
           /\ nats.error = NotImplemented
           /\ nats.request = None

\* A concrete, unsubstituted subject was decoded with a payload that parses.
C11_Witness ==
    /\ nats.op = "deserialize_payload"
    /\ nats.subject = ConcreteSubject(NatsRequest.CameraLoadRequest, <<"localhost">>)
    /\ nats.payload = "unit_name"
    /\ nats.result = "Err"

\* C12: for every known subject pattern and every payload, deserialize_payload
\* returns Ok with the variant tagged with that pattern, or the
\* deserialization error and no request; the error occurs exactly when the
\* variant carries a payload and the bytes do not parse into its type.
C12_KnownSubjectOkOrTypedError ==
    (nats.op = "deserialize_payload" /\ nats.subject \in RequestSubjects)
        => LET v == VariantOf(nats.subject)
               bad == /\ RequestPayload[v] # NoPayload
                      /\ RequestPayload[v] \notin ParsesInto(nats.payload)
           IN  /\ nats.result \in {"Ok", "Err"}
               /\ nats.result = "Ok" => (nats.request = v /\ nats.error = None)
               /\ nats.result = "Err"
                     => (nats.request = None /\ nats.error = SerdeJsonError)
               /\ nats.result = "Err" <=> bad

\* A payload variant was decoded from bytes that parse into another type
\* only, and a unit variant from bytes that parse into nothing.
C12_Witness ==
    /\ nats.op = "deserialize_payload"
    /\ \/ /\ nats.subject = NatsRequest.SystemdManagerDisableUnitsRequest
          /\ nats.payload = "unit_name"
          /\ nats.result = "Err"
       \/ /\ nats.subject = NatsRequest.SystemdManagerStopUnitRequest
          /\ nats.payload = "unit_name"
          /\ nats.result = "Ok"

\* The subjects deserialize_payload turns into the request variant.
SubjectsOf(v) ==
    {s \in KnownSubjects \cup UnknownSubjects :
        \E p \in Payloads : deserialize_payload(s, p).request = v}

\* C13: every request variant is produced by deserialize_payload for exactly
\* one subject pattern, and a handle that succeeds on it returns one fixed
\* reply variant that the handle of no other request variant returns.
C13_RequestReplyOneToOne ==
    /\ nats.op = "none" => \A v \in RequestVariants : Cardinality(SubjectsOf(v)) = 1
    /\ (nats.op = "handle" /\ nats.result = "Ok")
          => /\ nats.request \in RequestVariants
             /\ SubjectsOf(nats.request) = {nats.subject}
             /\ nats.reply \in ReplyVariants
             /\ nats.reply = HandleReply[nats.request]
             /\ \A r \in RequestVariants \ {nats.request} :
                    HandleReply[r] # nats.reply

\* The device info request of the unit test was handled and answered.
C13_Witness ==
    /\ nats.op = "handle"
    /\ nats.result = "Ok"
    /\ nats.request = "DeviceInfoLoadRequest"
    /\ nats.reply = "DeviceInfoLoadReply"

\* C14: the subject pattern a reply is serialized under is the subject
\* pattern of the request it answers.
C14_ReplyTagEqualsRequestTag ==
    (nats.op = "handle" /\ nats.result = "Ok")
        => NatsReply[nats.reply] = NatsRequest[nats.request]

\* C15: replace_subject_pattern on the concrete subject of a known pattern,
\* the device id and the placeholder returns the pattern.
C15_ReplaceReturnsPattern ==
    nats.op = "replace_subject_pattern" => nats.subject = nats.pattern

\* The failures a handler logs or matches on instead of propagating: the
\* request and the operation that failed.
SwallowedFailures ==
    {<<"CameraRecordingStopRequest", "start_unit">>,
     <<"DeviceInfoLoadRequest", "getifaddrs">>,
     <<"PrintNannyCloudAuthRequest", "connect_cloud_account">>}

C26_CloudAuthRepliesInBothOutcomes ==
    (/\ nats.op = "handle"
     /\ nats.request = "PrintNannyCloudAuthRequest"
     /\ nats.fail \in {None, "connect_cloud_account"})
        => /\ nats.result = "Ok"
           /\ nats.reply = "PrintNannyCloudAuthReply"
           /\ nats.status_code = IF nats.fail = None THEN StatusOk
                                                     ELSE StatusForbidden

\* A cloud-auth request whose account connection failed was answered.
C26_Witness ==
    /\ nats.op = "handle"
    /\ nats.request = "PrintNannyCloudAuthRequest"
    /\ nats.fail = "connect_cloud_account"
    /\ nats.reply = "PrintNannyCloudAuthReply"

\* C27: no handler performs disk, version-control or subprocess I/O inline
\* on the reactor; such operations run on the blocking pool.
C27_IoOnBlockingPool ==
    nats.op = "handle"
        => nats.reactor_io \cap {"disk", "vcs", "subprocess"} = {}

(***************************************************************************)
(* Claims about the pipeline orchestrator (checked under SpecGst)          *)
(***************************************************************************)
\* Call number i of the last factory call was answered successfully: for a
\* create call, make_pipeline returned Ok.
CallPassed(i) ==
    IF gst.calls[i].call = "create" THEN gst.calls[i].answer \in {"OK", "CONFLICT"}
    ELSE gst.calls[i].answer = "OK"

\* A create call for the name passed before call number i.
CreatedBefore(name, i) ==
    \E j \in 1..(i - 1) :
        /\ gst.calls[j].call = "create"
        /\ gst.calls[j].name = name
        /\ CallPassed(j)

\* The names of the pipelines the last factory call made a call for.
CalledNames == {gst.calls[i].name : i \in 1..Len(gst.calls)}

\* The last factory call made a passing call of the kind for the name.
Called(call, name) ==
    \E i \in 1..Len(gst.calls) :
        gst.calls[i].call = call /\ gst.calls[i].name = name /\ CallPassed(i)

\* C16: in start_pipelines a pipeline is played only after its own create
\* returned success, and a pipeline that listens to another is created only
\* after the create of that other returned success, whatever the flags.
C16_PlayAfterCreateAfterUpstream ==
    gst.op = "start_pipelines"
        => \A i \in 1..Len(gst.calls) :
              /\ gst.calls[i].call = "play" => CreatedBefore(gst.calls[i].name, i)
              /\ (gst.calls[i].call = "create" /\ gst.calls[i].listen_to # None)
                    => CreatedBefore(gst.calls[i].listen_to, i)

\* A run with the HLS branch enabled got as far as playing hls.
C16_Witness ==
    /\ gst.op = "start_pipelines"
    /\ gst.hls
    /\ Called("play", "hls")

\* C17: a create or play call of start_pipelines that fails is the last call
\* made, its error is the error returned, and the pipelines created before
\* it are still held by the server.
C17_FailFastNoRollback ==
    gst.op = "start_pipelines"
        => /\ \A i \in 1..Len(gst.calls) :
                 ~CallPassed(i)
                    => /\ i = Len(gst.calls)
                       /\ gst.result = "Err"
                       /\ gst.error = gst.calls[i].answer
           /\ \A i \in 1..Len(gst.calls) :
                 (gst.calls[i].call = "create" /\ CallPassed(i))
                    => gst.calls[i].name \in server
           /\ gst.before \subseteq server

\* The run created the camera and h264 pipelines on a server that did not
\* hold them, and failed at a later call.
C17_Witness ==
    /\ gst.op = "start_pipelines"
    /\ gst.result = "Err"
    /\ Len(gst.calls) > 4
    /\ {"camera", "h264"} \cap gst.before = {}
    /\ gst.calls[1].answer = "OK"

\* C18: make_pipeline for a name the server already holds, answered by the
\* server, returns success, on a repeated call as well, and leaves the set
\* of pipelines the server holds unchanged.
C18_ProvisionIdempotent ==
    (/\ gst.op = "make_pipeline"
     /\ gst.calls[1].name \in gst.before
     /\ gst.calls[1].answer = CreateAnswer(gst.before, gst.calls[1].name))
        => /\ gst.result = "Ok"
           /\ server = gst.before

\* make_pipeline was called again for a name after a call for it passed.
C18_Witness ==
    /\ gst.op = "make_pipeline"
    /\ gst.repeated
    /\ gst.calls[1].name = "camera"
    /\ gst.calls[1].answer = "CONFLICT"
    /\ gst.result = "Ok"

\* C19: make_pipeline returns success only when its create call passed or
\* was answered with HTTP conflict; any other failure of create is the error
\* it returns.
C19_OnlyConflictIsForgiven ==
    gst.op = "make_pipeline"
        => /\ gst.result = "Ok" <=> gst.calls[1].answer \in {"OK", "CONFLICT"}
           /\ gst.result # "Ok"
                 => (gst.result = "Err" /\ gst.error = gst.calls[1].answer)

\* A create call was answered with a bad status other than conflict for a
\* name the server holds.
C19_Witness ==
    /\ gst.op = "make_pipeline"
    /\ gst.calls[1].name \in gst.before
    /\ gst.calls[1].answer = "BadStatus"
    /\ gst.result = "Err"

\* The pipelines start_pipelines makes whatever the settings say.
NonOptional == {"camera", "h264", "rtp", "tflite_inference", "bounding_boxes", "df"}

\* C20: with the snapshot (the HLS) setting disabled, start_pipelines makes no
\* create and no play call for the snapshot (the hls) pipeline, and a run
\* that succeeds has created and played every other pipeline.
C20_DisabledBranchSkipped ==
    gst.op = "start_pipelines"
        => /\ ~gst.snapshot => "snapshot" \notin CalledNames
           /\ ~gst.hls => "hls" \notin CalledNames
           /\ gst.result = "Ok"
                 => \A n \in NonOptional : Called("create", n) /\ Called("play", n)

\* A run with both branches disabled succeeded on a server that holds the
\* snapshot pipeline of an earlier run.
C20_Witness ==
    /\ gst.op = "start_pipelines"
    /\ ~gst.snapshot
    /\ ~gst.hls
    /\ gst.result = "Ok"
    /\ "snapshot" \in server

(***************************************************************************)
(* Claims about the init-system adapter (checked under SpecSystemd)        *)
(***************************************************************************)
\* The change kind of the same name as the raw change type.
SameNameKind(change_type) ==
    IF change_type = "symlink" THEN "Symlink"
    ELSE IF change_type = "unlink" THEN "Unlink"
    ELSE None

\* C21: a reply carries, for each raw change, the change kind of the same
\* name, so a successful disable of an enabled unit carries exactly one
\* change, of kind Unlink.
C21_ChangeKindOfSameName ==
    (sd.op \in {"enable", "disable"} /\ sd.result = "Ok")
        => /\ Len(sd.changes) = Len(sd.raw)
           /\ \A i \in 1..Len(sd.raw) : sd.changes[i] = SameNameKind(sd.raw[i])
           /\ (sd.op = "disable" /\ sd.state = "enabled")
                 => sd.changes = <<"Unlink">>

\* C22: a successful enable or disable has issued Reload right after the
\* unit files call and nothing after it; a reload that fails makes the
\* call return an error and no reply.
C22_ReloadBeforeReply ==
    sd.op \in {"enable", "disable"}
        => /\ sd.result = "Ok"
                 => (/\ Len(sd.calls) = 2
                     /\ sd.calls[1] \in {"EnableUnitFiles", "DisableUnitFiles"}
                     /\ sd.calls[2] = "Reload"
                     /\ sd.reply # None)
           /\ sd.fail = "reload" => (sd.result # "Ok" /\ sd.reply = None)

\* A disabled unit was enabled with success, and an enable failed at its
\* reload.
C22_Witness ==
    /\ sd.op = "enable"
    /\ sd.state = "disabled"
    /\ sd.unit = "octoprint.service"
    /\ \/ sd.result = "Ok" /\ unit_files[sd.unit] = "enabled"
       \/ sd.fail = "reload" /\ sd.result = "Err"

\* C23: a change type besides symlink and unlink, or a unit file state
\* besides the nine known ones, that the init system answers with stops
\* the handler with a panic: no reply is built, with no value standing in
\* for the unknown one.
C23_UnknownValueIsHardFailure ==
    /\ (sd.op \in {"enable", "disable"}
          /\ \E i \in 1..Len(sd.raw) : sd.raw[i] \notin KnownChangeTypes)
            => (sd.result = "panic" /\ sd.reply = None /\ sd.changes = <<>>)
    /\ (sd.op = "get_unit_file_state" /\ sd.state = "indirect")
            => (sd.result = "panic" /\ sd.reply = None)
    /\ (sd.op = "get_unit_file_state" /\ sd.result = "Ok")
            => sd.reply \in SystemdUnitFileStates

\* The state of a unit in state indirect was asked for, and answered.
C23_Witness ==
    /\ sd.op = "get_unit_file_state"
    /\ sd.fail = "none"
    /\ sd.state = "indirect"

\* C24: get_unit_file_state for a unit the init system does not know
\* returns an error and no reply; it does not panic.
C24_UnknownUnitIsError ==
    (sd.op = "get_unit_file_state" /\ sd.unit \notin Units)
        => (sd.result = "Err" /\ sd.reply = None)

\* The bus was reached and asked for the state of the unknown unit.
C24_Witness ==
    /\ sd.op = "get_unit_file_state"
    /\ sd.unit = "doesnotexist.service"
    /\ sd.fail = "none"
    /\ sd.calls = <<"GetUnitFileState">>

(***************************************************************************)
(* Claims about the recording lifecycle manager (checked under Spec)       *)
(***************************************************************************)
\* The call recorded in rec found the table without an open row.
StopWhenIdle == rec.op = "stop" /\ OpenRows(rec.before) = {}

\* Every row other than id is as it was before the call recorded in rec.
OthersUntouched(id) ==
    /\ DOMAIN video_recordings = DOMAIN rec.before
    /\ \A i \in DOMAIN video_recordings \ {id} : video_recordings[i] = rec.before[i]

\* Row id is marked captured with its end time set.
Captured(id) ==
    /\ id \in DOMAIN video_recordings
    /\ video_recordings[id].capture_done
    /\ video_recordings[id].recording_end # NULL

\* C1: at most one row has capture_done = false, and a start() issued
\* while such a row exists fails and inserts no row.
C1_AtMostOneCurrent ==
    /\ Cardinality(OpenRows(video_recordings)) <= 1
    /\ (rec.op = "start" /\ OpenRows(rec.before) # {})
          => (rec.result = "Err" /\ video_recordings = rec.before)

C8_StopUpdatesStartedRow ==
    (/\ rec.op = "stop" /\ rec.result = "Ok"
     /\ rec.prev.op = "start" /\ rec.prev.result = "Ok")
    => /\ rec.id = rec.prev.id
       /\ rec.reply = rec.prev.id
       /\ Captured(rec.prev.id)
       /\ ~rec.before[rec.prev.id].capture_done
       /\ OthersUntouched(rec.prev.id)

\* C8 witness: start() then stop(), both successful, with a second open
\* row in the table when stop() ran.
C8_Witness ==
    /\ rec.op = "stop" /\ rec.result = "Ok"
    /\ rec.prev.op = "start" /\ rec.prev.result = "Ok"
    /\ Cardinality(OpenRows(rec.before)) = 2
    /\ Captured(rec.prev.id)

\* C9: with a current recording and the end-of-stream signal sent, stop()
\* marks the row captured whatever the cloud-sync unit step does (bus
\* unreachable, proxy failure, start-unit failure).
C9_CapturedWhateverSyncDoes ==
    (/\ rec.op = "stop" /\ rec.id # None
     /\ rec.fail \in {"none", "dbus_connection", "dbus_proxy"})
    => Captured(rec.id)

C29_FailedStartLeavesRows ==
    (rec.op = "start" /\ rec.result = "Err") => video_recordings = rec.before

(***************************************************************************)
(* Claims about the settings engine (checked under SpecVcs)                *)
(***************************************************************************)
\* Sequence old is the tail of sequence new.
IsSuffix(old, new) ==
    /\ Len(old) <= Len(new)
    /\ \A k \in 1..Len(old) : old[k] = new[Len(new) - Len(old) + k]

\* The history when the call recorded in vcs began: commit objects are
\* never removed, so the walk from the old HEAD still reads it.
history_before == Ancestry(vcs.head_before)

\* The last call is a successful revert of the HEAD commit for app D, HEAD
\* is the commit of apply(D, "b", _) and its parent the commit of
\* apply(D, "a", _).
RevertedHeadAfterAB ==
    /\ vcs.op = "revert" /\ vcs.result = "Ok" /\ vcs.target = head
    /\ head \in DOMAIN applied
    /\ commits[head].parent \in DOMAIN applied
    /\ applied[head].app = vcs.app
    /\ applied[head].content = "b"
    /\ applied[commits[head].parent].app = vcs.app
    /\ applied[commits[head].parent].content = "a"

\* C2: after apply(D, "a", m1), apply(D, "b", m2) and a revert of the HEAD
\* commit, D's file on disk and the file of the revert reply hold "a".
C2_RevertHeadRestoresPrevious ==
    RevertedHeadAfterAB =>
        /\ workdir[vcs.app] = "a"
        /\ vcs.file = "a"

\* C2 witness: such a revert was answered for the domain whose hooks may
\* fail, and its reply carries "a".
C2_Witness ==
    /\ RevertedHeadAfterAB
    /\ vcs.app = "octoprint"
    /\ vcs.file = "a"

\* C3: every successful revert appends exactly one commit on top of HEAD:
\* the history is one longer than before and HEAD names another commit.
C3_RevertAppendsOneCommit ==
    (vcs.op = "revert" /\ vcs.result = "Ok") =>
        /\ head # vcs.head_before
        /\ Len(get_rev_list) = Len(history_before) + 1

\* C4: the commit log is append-only: after any apply or revert call,
\* successful or not, the history before the call is the tail of the
\* newest-first history after it.
C4_HistoryAppendOnly ==
    vcs.op \in {"apply", "revert"} => IsSuffix(history_before, get_rev_list)

\* C4 witness: an apply put a commit on top of a history of two commits,
\* which is still there below it.
C4_Witness ==
    /\ vcs.op = "apply" /\ vcs.result = "Ok"
    /\ Len(history_before) = 2
    /\ get_rev_list = <<head>> \o history_before

\* The last call is a successful load and the call before it a successful
\* apply (whose commit is therefore HEAD).
LoadedAfterApply ==
    /\ vcs.op = "load" /\ vcs.result = "Ok"
    /\ vcs.after = [op |-> "apply", result |-> "Ok"]
    /\ head \in DOMAIN applied

\* C5: a successful apply(domain, C, msg) followed immediately by a load
\* returns C as the content of the domain's file.
C5_ApplyLoadRoundTrip ==
    LoadedAfterApply => vcs.file[applied[head].app] = applied[head].content

\* C5 witness: a load right after an apply that changed the file to "b".
C5_Witness ==
    /\ LoadedAfterApply
    /\ applied[head].content = "b"
    /\ TreeOf(commits[head].parent)[applied[head].app] = "a"
    /\ vcs.file[applied[head].app] = "b"

\* C6: apply is atomic: a call of apply that returns an error at pre_save,
\* write, stage, commit or post_save leaves the domain's file and the
\* commit log as they were before the call.
C6_ApplyIsAtomic ==
    [][(/\ vcs'.op = "apply"
        /\ vcs'.fail \in {"pre_save", "write_settings", "git_add_all",
                          "git_commit", "post_save"})
          => /\ workdir'[vcs'.app] = workdir[vcs'.app]
             /\ AncestryIn(commits', head') = get_rev_list]_vars

\* The last call was an apply whose first failing step is the given one.
ApplyFailedAt(step) == vcs'.op = "apply" /\ vcs'.fail = step

\* The apply that just ran created one commit on top of HEAD, whose tree
\* holds the content written for the app.
OneCommitOfWrittenFile ==
    /\ DOMAIN commits' = DOMAIN commits \cup {head'}
    /\ head' \notin DOMAIN commits
    /\ commits'[head'].parent = head
    /\ commits'[head'].tree[vcs'.app] = vcs'.content
    /\ workdir'[vcs'.app] = vcs'.content
    /\ index'[vcs'.app] = vcs'.content

\* C30: apply runs pre_save, the file write, the staging, the commit and
\* post_save in that order, a step only after every earlier one succeeded:
\* a failure of pre_save or of the write leaves the file, a failure of the
\* staging leaves the index, a failure of the commit leaves the history,
\* and an apply that got past the commit, a successful one included, has
\* created exactly one commit, of the staged written file.
C30_ApplyStepOrder ==
    [][vcs'.op = "apply"
        => /\ (ApplyFailedAt("pre_save") \/ ApplyFailedAt("write_settings"))
                 => UNCHANGED <<workdir, index, commits, head>>
           /\ ApplyFailedAt("git_add_all")
                 => (/\ workdir'[vcs'.app] = vcs'.content
                     /\ UNCHANGED <<index, commits, head>>)
           /\ ApplyFailedAt("git_commit")
                 => (/\ workdir'[vcs'.app] = vcs'.content
                     /\ index'[vcs'.app] = vcs'.content
                     /\ UNCHANGED <<commits, head>>)
           /\ (vcs'.result = "Ok" \/ ApplyFailedAt("post_save"))
                 => OneCommitOfWrittenFile]_vars

\* An apply created its commit and then failed in post_save.
C30_Witness ==
    /\ vcs.op = "apply"
    /\ vcs.fail = "post_save"
    /\ head # vcs.head_before
    /\ commits[head].tree[vcs.app] = vcs.content

\* C28: with at most one apply in flight per app and applies of two apps
\* running at the same time, every apply creates a commit, and the commit
\* differs from its parent only in the file of its own app.
C28_ConcurrentAppliesIsolated ==
    /\ \A app \in Apps : pc[app].result # "Err"
    /\ \A oid \in DOMAIN applied :
          \A f \in Apps \ {applied[oid].app} :
              commits[oid].tree[f] = TreeOf(commits[oid].parent)[f]

\* C31: the history returned with the reply to an apply on an app holds no
\* commit made by an apply on another app.
C31_HistoryIsPerDomain ==
    (vcs.op = "apply" /\ vcs.result = "Ok")
        => \A i \in 1..Len(get_rev_list) :
              get_rev_list[i] \in DOMAIN applied
                 => applied[get_rev_list[i]].app = vcs.app

\* C32: a commit made by an apply without a message ends in revision #N
\* with N = 1 on a root HEAD and N = 2 on a HEAD with a parent, HEAD being
\* the one at the time of the call; a commit made with a message carries
\* exactly that message.
C32_GeneratedRevisionNumber ==
    (vcs.op = "apply" /\ head # vcs.head_before)
        => LET given == applied[head].message
               made == commits[head].message
               root == commits[vcs.head_before].parent = NoCommit
           IN  IF given = NoMessage
                  THEN /\ Len(made) = 4
                       /\ made[4] = IF root THEN 1 ELSE 2
                  ELSE made = given

\* An apply without a message committed on a HEAD that has a parent, after
\* one that committed on the root HEAD.
C32_Witness ==
    /\ vcs.op = "apply"
    /\ head # vcs.head_before
    /\ applied[head].message = NoMessage
    /\ commits[vcs.head_before].parent # NoCommit
    /\ commits[head].message[4] = 2

\* C33: on a settings repository with no commits, apply, revert with or
\* without a target and history each return an error value and create no
\* commit.
C33_UnbornRepositoryIsError ==
    (vcs.op \in {"apply", "revert", "load"} /\ vcs.head_before = NoCommit)
        => (vcs.result = "Err" /\ DOMAIN commits = {})

\* C34: get_current returns a row if and only if some row has
\* capture_done = false; the row returned has capture_done = false and no
\* other such row has a later recording_start, so a row whose
\* recording_start is not set is returned only when none of them has it set.
C34_CurrentIsLatestOpenRow ==
    (rec.op = "stop" /\ rec.fail # "get_current")
        => LET rows == rec.before
               open == {i \in DOMAIN rows : rows[i].capture_done = FALSE}
           IN  /\ rec.id # None <=> open # {}
               /\ rec.id # None
                     => /\ rec.id \in open
                        /\ \A j \in open :
                              rows[j].recording_start
                                 <= rows[rec.id].recording_start
                        /\ rows[rec.id].recording_start = NULL
                              => \A j \in open :
                                    rows[j].recording_start = NULL

\* A stop looked up the current recording while another row with
\* capture_done = false had an earlier recording_start or none.
C34_Witness ==
    /\ rec.op = "stop"
    /\ rec.fail # "get_current"
    /\ rec.id # None
    /\ \E j \in DOMAIN rec.before \ {rec.id} :
          /\ rec.before[j].capture_done = FALSE
          /\ rec.before[j].recording_start < rec.before[rec.id].recording_start

\* C35: a row that has capture_done = true keeps it over every start, stop
\* and update from the cloud, and a row has cloud_sync_done = true only if
\* it has capture_done = true.
C35_LifecycleOnlyMovesForward ==
    [][\A i \in DOMAIN video_recordings :
          /\ video_recordings[i].capture_done
                => video_recordings'[i].capture_done
          /\ video_recordings'[i].cloud_sync_done
                => video_recordings'[i].capture_done]_vars

\* C36: after an apply or a revert on an app that succeeded, the app's file
\* in the working directory and in the index is the one recorded in the
\* HEAD commit.
C36_WorkingFileEqualsHead ==
    (vcs.op \in {"apply", "revert"} /\ vcs.result = "Ok")
        => /\ workdir[vcs.app] = TreeOf(head)[vcs.app]
           /\ index[vcs.app] = TreeOf(head)[vcs.app]

\* C37: over any sequence of stop() calls the start of the cloud-sync unit
\* of a recording is requested at most once: no stop() requests a unit that
\* was requested before.
C37_UnitRequestedAtMostOnce ==
    [][(rec'.op = "stop" /\ rec'.unit # None) => rec'.unit \notin unit_jobs]_vars

\* C38: in every recording-load reply, also of a load that runs while
\* recordings start and stop, current when present is one of the rows of
\* recordings and has capture_done = false, and current is absent only if
\* no row of recordings has capture_done = false.
C38_LoadReplyIsConsistent ==
    (load.step = "done" /\ load.result = "Ok")
        => /\ load.current # None
                 => /\ load.current \in DOMAIN load.recordings
                    /\ ~load.recordings[load.current].capture_done
           /\ load.current = None
                 => \A i \in DOMAIN load.recordings :
                       load.recordings[i].capture_done

\* C39: a start_pipelines run that follows a run with the same settings
\* which failed part-way, and in which no call is answered with an error,
\* succeeds; it makes one create call for every enabled pipeline, which
\* creates the pipeline only if the server did not hold it, and ends with
\* every enabled pipeline held by the server and playing.
C39_RetryAfterPartialFailure ==
    (gst.op = "start_pipelines" /\ gst.retry)
        => LET names == {Pipelines[k].name : k \in
                            {j \in 1..Len(Pipelines) :
                                enabled(Pipelines[j], gst.snapshot, gst.hls)}}
               creates(n) == {k \in 1..Len(gst.calls) :
                                 /\ gst.calls[k].call = "create"
                                 /\ gst.calls[k].name = n}
           IN  /\ gst.result = "Err" => gst.error \in CallErrors
               /\ gst.result = "Ok"
                     => /\ names \subseteq server
                        /\ names \subseteq playing
                        /\ \A n \in names :
                              /\ Cardinality(creates(n)) = 1
                              /\ \A k \in creates(n) :
                                    gst.calls[k].answer =
                                       IF n \in gst.before THEN "CONFLICT"
                                                           ELSE "OK"

\* A run succeeded after one with the same settings that had created the
\* camera pipeline and failed before the last pipeline was created.
C39_Witness ==
    /\ gst.op = "start_pipelines"
    /\ gst.retry
    /\ gst.result = "Ok"
    /\ "camera" \in gst.before
    /\ "df" \notin gst.before
    /\ "df" \in playing

\* C40 as stated: load_model evaluates its fallback if and only if the cached
\* file cannot be read and parsed; after a fallback that succeeds the model
\* is in the cache file and returned, and the next load_model on the path
\* returns it without the fallback; after a fallback that fails the error is
\* returned and the file is not written.
C40_FallbackAlwaysCached ==
    \A p \in Paths :
        lm[p].op = "load_model"
            => LET c == lm[p]
                   fell == c.fallback
                   got == fell /\ c.remote # RemoteError
               IN  /\ fell <=> read_model_json(c.before).result = "Err"
                   /\ got => /\ cache[p] = to_writer(c.remote)
                             /\ c.result = "Ok"
                             /\ c.model = c.remote
                   /\ (c.prev.fallback /\ c.prev.result = "Ok")
                         => (~fell /\ c.result = "Ok" /\ c.model = c.prev.model)
                   /\ (fell /\ ~got)
                         => (c.result = "Err" /\ cache[p] = c.before)

\* C40: load_model evaluates its fallback if and only if the cached file
\* cannot be read and parsed; after a fallback that succeeds and a save that
\* succeeds the model is in the cache file and returned, and the next
\* load_model on the path returns it without the fallback; when the save
\* fails WriteIOError is returned and the file holds no model; after a
\* fallback that fails the error is returned and the file is not written.
C40_FallbackCachedWhenSaved ==
    \A p \in Paths :
        lm[p].op = "load_model"
            => LET c == lm[p]
                   fell == c.fallback
                   got == fell /\ c.remote # RemoteError
               IN  /\ fell <=> read_model_json(c.before).result = "Err"
                   /\ (got /\ c.fault = "none")
                         => /\ cache[p] = to_writer(c.remote)
                            /\ c.result = "Ok"
                            /\ c.model = c.remote
                   /\ (got /\ c.fault # "none")
                         => /\ c.result = "Err"
                            /\ c.error = "WriteIOError"
                            /\ read_model_json(cache[p]).result = "Err"
                   /\ (c.prev.fallback /\ c.prev.result = "Ok")
                         => (~fell /\ c.result = "Ok" /\ c.model = c.prev.model)
                   /\ (fell /\ ~got)
                         => (c.result = "Err" /\ cache[p] = c.before)
                   /\ ~fell => (c.result = "Ok" /\ cache[p] = c.before)

\* A load_model returned the model from the cache that the call before it
\* on the same path had fetched with the fallback and saved.
C40_Witness ==
    \E p \in Paths :
        /\ lm[p].op = "load_model"
        /\ lm[p].prev.fallback
        /\ lm[p].prev.result = "Ok"
        /\ ~lm[p].fallback
        /\ lm[p].model = lm[p].prev.model

====
